---- MODULE Spec2Model ----
(***************************************************************************)
(* Jellyfin Manager: the Docker adapter (core/docker_manager.py), the      *)
(* background threads (core/log_streamer.py) and the handlers of the main  *)
(* window and the control panel (ui/main_window.py,                        *)
(* ui/widgets/control_panel.py).                                           *)
(*                                                                         *)
(* The methods are operators over a record s that holds the engine's       *)
(* state, the adapter's cached connection, the window's fields and the     *)
(* trace of the calls made so far.  Each returns [s, v, exc]: the state    *)
(* after, the value returned, and whether an exception left the method     *)
(* uncaught.  Bind(r, LAMBDA x : e) names the result r of one call as x in *)
(* what follows it.                                                        *)
(***************************************************************************)
EXTENDS Integers, Sequences, FiniteSets, TLC

VARIABLES
    installed,   \* the docker executable is on the search path
    daemonUp,    \* the daemon accepts connections and answers a ping
    autostart,   \* systemctl is-enabled docker answers "enabled"
    cstate,      \* the state of the container named container_name
    image,       \* the image is present locally
    sdk,         \* DOCKER_SDK_AVAILABLE
    client,      \* DockerManager._client
    last,        \* the last completed call: its inputs, result and call trace
    streak,      \* how many times in succession the last operation was called
    stop_daemon_on_exit,  \* AppConfig.stop_daemon_on_exit
    window,      \* the main window: "open" or "closed"
    buttons,     \* which of the Setup, Start and Stop buttons are enabled
    log_streamer,    \* MainWindow._log_streamer: None or a started LogStreamer
    status_poller,   \* MainWindow._status_poller: None or a started StatusPoller
    threads,     \* the LogStreamer threads started so far
    workers,     \* the ImagePullWorker threads started so far
    signals,     \* finished(success) signals queued for the window's thread
    ui,          \* the last handler run: its call trace and outcome
    poller,      \* the StatusPoller thread: where its run() is, its last ticks
    media_paths, \* AppConfig.media_paths
    persisted,   \* the configuration file: whether it exists, its media_paths list
    relay,       \* one LogStreamer.run followed statement by statement
    polling,     \* StatusPoller.run followed statement by statement, and the
                 \* snapshots on their way to the window
    panel,       \* the control panel's configuration handlers and
                 \* ConfigManager.save followed statement by statement
    timer        \* a StatusPoller of some interval_ms: its sleep loop

envVars == <<installed, daemonUp, autostart, cstate, image, sdk>>
adapterVars == <<client, last, streak>>
cfgVars == <<stop_daemon_on_exit, media_paths, persisted>>
pollVars == <<status_poller, poller>>
stepVars == <<relay, polling, panel, timer>>
uiVars == <<cfgVars, stepVars, window, buttons, log_streamer, pollVars,
            threads, workers, signals, ui>>
vars == <<installed, daemonUp, autostart, cstate, image, sdk, client, last, streak,
          stop_daemon_on_exit, window, buttons, log_streamer, status_poller,
          threads, workers, signals, ui, poller, media_paths, persisted,
          relay, polling, panel, timer>>

\* ---------------------------------------------------------------- bounds
MaxStreak == 3
MaxPulls == 2
MaxStreamers == 2
MaxPaths == 3
MaxAfter == 2
MaxLines == 3
MaxSnapshots == 3
MaxIntervalMs == 300
Slices == 2

\* ------------------------------------------------------------ data model
NOT_FOUND == "not_found"
CREATED == "created"
RUNNING == "running"
PAUSED == "paused"
RESTARTING == "restarting"
EXITED == "exited"
DEAD == "dead"
ContainerState == {NOT_FOUND, CREATED, RUNNING, PAUSED, RESTARTING, EXITED, DEAD}

DAEMON_NOT_INSTALLED == "not_installed"
DAEMON_STOPPED == "stopped"
DAEMON_RUNNING == "running"
DaemonState == {DAEMON_NOT_INSTALLED, DAEMON_STOPPED, DAEMON_RUNNING}

None == "None"
Conn == "DockerClient"
ShortId == "short_id"

DockerStatus(d, a, c, id, img, err) ==
    [daemon_state |-> d, daemon_autostart |-> a, container_state |-> c,
     container_id |-> id, image_pulled |-> img, error_message |-> err]

NoStatus == DockerStatus(None, FALSE, None, None, FALSE, None)

\* --------------------------------------------------------- call results
B2S(b) == IF b THEN "true" ELSE "false"

Bind(r, F(_)) == F(r)

Res(s, v) == [s |-> s, v |-> v, exc |-> FALSE]
Raise(s) == [s |-> s, v |-> None, exc |-> TRUE]
Ret(s, ok, msg) == Res(s, [ok |-> ok, msg |-> msg])

\* One entry of the call trace: the call, its answer, and the container's
\* state at the moment of the call.
Call(s, name, answer) ==
    [s EXCEPT !.calls = Append(@, [c |-> name, a |-> answer, cs |-> s.cstate])]

\* The result (success, message) of a call, entered in the trace.
Noted(r, name_ok, name_msg) ==
    IF r.exc THEN r
    ELSE [r EXCEPT !.s = Call(Call(r.s, name_ok, B2S(r.v.ok)), name_msg, r.v.msg)]

\* "except APIError": the call made last failed with an APIError, entered in
\* the trace.
ApiError(s) == Call(s, "APIError", s.calls[Len(s.calls)].c)

\* What the engine makes of a call over the cached connection: with the daemon
\* down the connection is broken and the library raises (f.conn names what);
\* with it up, the call fails with an APIError when the fault is injected.
Outcome(s, apiFault, f) ==
    IF ~s.daemonUp THEN (IF f.conn = "APIError" THEN "api" ELSE "raise")
    ELSE IF apiFault THEN "api" ELSE "ok"

\* ----------------------------------------------------- ConfigManager
\* A media folder, a pathlib.Path: its parent and its last component (name).
Path(parent, name) == [parent |-> parent, name |-> name]

\* str(path)
Str(p) == p.parent \o "/" \o p.name

\* No configuration file on the disk.
NoFile == [exists |-> FALSE, media_paths |-> <<>>]

InSeq(x, q) == \E i \in 1..Len(q) : q[i] = x

NoDuplicate(q) == \A i, j \in 1..Len(q) : i # j => q[i] # q[j]

\* list.remove(x): the first occurrence of x goes.
RemoveFirst(q, x) ==
    [i \in 1..(Len(q) - 1) |->
        IF \E j \in 1..i : q[j] = x THEN q[i + 1] ELSE q[i]]

\* _serialize_config, the media_paths entry: [str(p) for p in media_paths].
_serialize_config(paths) == [i \in 1..Len(paths) |-> Str(paths[i])]

\* save(): the file is written from the configuration in memory.
save(s) ==
    [Call(s, "config.save", "-") EXCEPT
        !.persisted = [exists |-> TRUE,
                       media_paths |-> _serialize_config(s.media_paths)]]

\* add_media_path without the membership test.
add_media_path_no_check(s, path) ==
    Res(save([s EXCEPT !.media_paths = Append(@, path)]), None)

add_media_path(s, path) ==
    IF ~InSeq(path, s.media_paths)
    THEN Res(save([s EXCEPT !.media_paths = Append(@, path)]), None)
    ELSE Res(s, None)

remove_media_path(s, path) ==
    IF InSeq(path, s.media_paths)
    THEN Res(save([s EXCEPT !.media_paths = RemoveFirst(@, path)]), None)
    ELSE Res(s, None)

\* ContainerConfig and AppConfig, the mounts.
config_mount == "/config"
cache_mount == "/cache"
media_mount_base == "/media"
config_dir == "~/.jellyfin-manager/config"
cache_dir == "~/.jellyfin-manager/cache"

\* [v['bind'] for v in volumes.values()]
Binds(volumes) == [k \in 1..Len(volumes) |-> volumes[k].bind]

\* volumes[host] = {'bind': bind, 'mode': 'rw'}: a key already in the dict keeps
\* its place and takes the new value.
Put(volumes, host, bind) ==
    IF \E k \in 1..Len(volumes) : volumes[k].host = host
    THEN [k \in 1..Len(volumes) |->
            IF volumes[k].host = host THEN [host |-> host, bind |-> bind]
            ELSE volumes[k]]
    ELSE Append(volumes, [host |-> host, bind |-> bind])

\* The mount point of the media path at index i (from 0) of media_paths.
mount_point(volumes, media_path, i) ==
    IF InSeq(media_mount_base \o "/" \o media_path.name, Binds(volumes))
    THEN media_mount_base \o "/" \o media_path.name \o "_" \o ToString(i)
    ELSE media_mount_base \o "/" \o media_path.name

\* for i, media_path in enumerate(self.config.media_paths): ...
RECURSIVE media_volumes(_, _, _)
media_volumes(volumes, paths, i) ==
    IF i >= Len(paths) THEN volumes
    ELSE media_volumes(Put(volumes, Str(paths[i + 1]),
                           mount_point(volumes, paths[i + 1], i)),
                       paths, i + 1)

\* The volumes create_container builds.
build_volumes(paths) ==
    media_volumes(<<[host |-> config_dir, bind |-> config_mount],
                    [host |-> cache_dir, bind |-> cache_mount]>>, paths, 0)

\* What the engine refuses to create: a container of an image it does not
\* have, or of a name in use, or with two mounts on one target.
CreateRefused(s) ==
    \/ ~s.image
    \/ s.cstate # NOT_FOUND
    \/ ~NoDuplicate(Binds(build_volumes(s.media_paths)))

\* ----------------------------------------------------- DockerManager
\* How making a connection ends.  docker.from_env() contacts the daemon in the
\* releases of the SDK that negotiate the API version and raises a
\* DockerException when it cannot ("create_fails"); where it does not, or when
\* the daemon goes away in between, ping() is the first request and fails with
\* an APIError ("ping_api") or with the ConnectionError of the HTTP library,
\* which is no DockerException ("ping_conn").
ConnectOutcomes(up) ==
    IF up THEN {"ok", "ping_api"} ELSE {"create_fails", "ping_conn"}

\* The client property, the connection attempt ending as c says.
client_connect(s, c) ==
    IF ~s.sdk THEN Res(s, None)
    ELSE IF s.client # None THEN Res(s, s.client)
    ELSE IF c = "create_fails"
    THEN Res([Call(s, "docker.from_env", "DockerException") EXCEPT !.client = None],
             None)
    ELSE Bind([Call(s, "docker.from_env", "-") EXCEPT !.client = Conn], LAMBDA s1 :
            IF c = "ok" THEN Res(Call(s1, "ping", "-"), Conn)
            ELSE IF c = "ping_api"
            THEN Res([Call(s1, "ping", "APIError") EXCEPT !.client = None], None)
            ELSE Raise(Call(s1, "ping", "ConnectionError")))

\* The client property where the connection attempt fails with a
\* DockerException exactly when the daemon is down.
client_property(s) ==
    client_connect(s, IF s.daemonUp THEN "ok" ELSE "create_fails")

\* refresh_client, the connection attempt ending as c says.
refresh_client_connect(s, c) ==
    Bind(client_connect([s EXCEPT !.client = None], c), LAMBDA r :
        IF r.exc THEN r ELSE Res(r.s, r.v # None))

refresh_client(s) ==
    Bind(client_property([s EXCEPT !.client = None]), LAMBDA r :
        Res(r.s, r.v # None))

is_docker_installed(s) ==
    Res(Call(s, "is_docker_installed", B2S(s.installed)), s.installed)

is_daemon_running(s) ==
    IF ~s.sdk
    THEN Res(Call(Call(s, "docker info", "-"), "is_daemon_running",
                  B2S(s.installed /\ s.daemonUp)),
             s.installed /\ s.daemonUp)
    ELSE Bind(client_property(s), LAMBDA r :
            Res(Call(r.s, "is_daemon_running", B2S(r.v # None)), r.v # None))

is_daemon_autostart_enabled(s) ==
    Res(Call(Call(s, "systemctl is-enabled", "-"),
             "is_daemon_autostart_enabled", B2S(s.autostart)), s.autostart)

is_image_pulled(s, f) ==
    Bind(client_property(s), LAMBDA r :
        IF r.v = None THEN Res(Call(r.s, "is_image_pulled", "false"), FALSE)
        ELSE Bind(Call(r.s, "images.get", "-"), LAMBDA s1 :
                IF Outcome(s1, f.qry, f) = "raise" THEN Raise(s1)
                ELSE IF Outcome(s1, f.qry, f) = "ok" /\ s1.image
                THEN Res(Call(s1, "is_image_pulled", "true"), TRUE)
                ELSE Res(Call(s1, "is_image_pulled", "false"), FALSE)))

get_container_state(s, f) ==
    Bind(client_property(s), LAMBDA r :
        IF r.v = None THEN Res(Call(r.s, "get_container_state", NOT_FOUND), NOT_FOUND)
        ELSE Bind(Call(r.s, "containers.get", "-"), LAMBDA s1 :
                IF Outcome(s1, f.qry, f) = "raise" THEN Raise(s1)
                ELSE IF Outcome(s1, f.qry, f) = "ok"
                THEN Res(Call(s1, "get_container_state", s1.cstate), s1.cstate)
                ELSE Res(Call(s1, "get_container_state", NOT_FOUND), NOT_FOUND)))

\* The third branch of get_full_status with the id taken before the state
\* query and whatever the state.
full_status_running_id_first(s, f, rm) ==
    Bind(Call(s, "containers.get", "-"), LAMBDA s4 :
        IF Outcome(s4, f.qry, f) = "raise" THEN Raise(s4)
        ELSE
        Bind(get_container_state([s4 EXCEPT !.cstate = IF rm THEN NOT_FOUND ELSE @], f),
             LAMBDA r3 :
        IF r3.exc THEN Raise(r3.s)
        ELSE
        Bind(is_daemon_autostart_enabled(r3.s), LAMBDA r5 :
        Bind(is_image_pulled(r5.s, f), LAMBDA r6 :
            IF r6.exc THEN Raise(r6.s)
            ELSE Res(r6.s, DockerStatus(DAEMON_RUNNING, r5.v, r3.v,
                                        IF Outcome(s4, f.qry, f) = "ok"
                                              /\ s4.cstate # NOT_FOUND
                                        THEN ShortId ELSE None,
                                        r6.v, None))))))

\* The third branch of get_full_status, from the state query on.
\* rm: the container is removed outside the application between the state
\* query and the id query.
full_status_running(s, f, rm) ==
    Bind(get_container_state(s, f), LAMBDA r3 :
        IF r3.exc THEN Raise(r3.s)
        ELSE
        Bind(IF r3.v = NOT_FOUND THEN Res(r3.s, None)
             ELSE Bind(Call([r3.s EXCEPT !.cstate = IF rm THEN NOT_FOUND ELSE @],
                            "containers.get", "-"), LAMBDA s4 :
                     IF Outcome(s4, f.qry, f) = "raise" THEN Raise(s4)
                     ELSE IF Outcome(s4, f.qry, f) = "ok" /\ s4.cstate # NOT_FOUND
                     THEN Res(s4, ShortId)
                     ELSE Res(s4, None)), LAMBDA r4 :
        IF r4.exc THEN Raise(r4.s)
        ELSE
        Bind(is_daemon_autostart_enabled(r4.s), LAMBDA r5 :
        Bind(is_image_pulled(r5.s, f), LAMBDA r6 :
            IF r6.exc THEN Raise(r6.s)
            ELSE Res(r6.s, DockerStatus(DAEMON_RUNNING, r5.v, r3.v, r4.v, r6.v,
                                        None))))))

\* get_full_status with the queries of the third branch made in the first two
\* as well (no short-circuit).
get_full_status_queries_always(s, f, rm) ==
    Bind(is_docker_installed(s), LAMBDA r0 :
    Bind(is_daemon_running(r0.s), LAMBDA r1 :
    Bind(full_status_running(r1.s, f, rm), LAMBDA r :
        IF r.exc THEN Raise(r.s)
        ELSE Res(r.s, [r.v EXCEPT !.daemon_state =
                         IF ~r0.v THEN DAEMON_NOT_INSTALLED
                         ELSE IF ~r1.v THEN DAEMON_STOPPED ELSE DAEMON_RUNNING]))))

\* get_full_status that reports autostart as false when the daemon is stopped.
get_full_status_no_autostart(s, f, rm) ==
    Bind(is_docker_installed(s), LAMBDA r0 :
        IF ~r0.v
        THEN Res(r0.s, DockerStatus(DAEMON_NOT_INSTALLED, FALSE, NOT_FOUND, None,
                                    FALSE, "Docker is not installed"))
        ELSE
        Bind(is_daemon_running(r0.s), LAMBDA r1 :
            IF ~r1.v
            THEN Res(r1.s, DockerStatus(DAEMON_STOPPED, FALSE, NOT_FOUND, None,
                                        FALSE, None))
            ELSE full_status_running(r1.s, f, rm)))

get_full_status(s, f, rm) ==
    Bind(is_docker_installed(s), LAMBDA r0 :
        IF ~r0.v
        THEN Res(r0.s, DockerStatus(DAEMON_NOT_INSTALLED, FALSE, NOT_FOUND, None,
                                    FALSE, "Docker is not installed"))
        ELSE
        Bind(is_daemon_running(r0.s), LAMBDA r1 :
            IF ~r1.v
            THEN Bind(is_daemon_autostart_enabled(r1.s), LAMBDA r2 :
                    Res(r2.s, DockerStatus(DAEMON_STOPPED, r2.v, NOT_FOUND, None,
                                           FALSE, None)))
            ELSE full_status_running(r1.s, f, rm)))

\* What container.start() makes of the container's state at the engine.
StartEffect(c) == IF c \in {CREATED, EXITED, RESTARTING, RUNNING} THEN RUNNING ELSE c
StartRefused(c) == c \in {PAUSED, DEAD, NOT_FOUND}

\* start_container from the second lookup on, without "except APIError".
start_container_engine_no_except(s, f) ==
    Bind(Call(s, "containers.get", "-"), LAMBDA s2 :
        IF Outcome(s2, s2.cstate = NOT_FOUND, f) # "ok" THEN Raise(ApiError(s2))
        ELSE
        Bind(Call(s2, "container.start", "-"), LAMBDA s3 :
            IF Outcome(s3, f.mut \/ StartRefused(s3.cstate), f) # "ok"
            THEN Raise(ApiError(s3))
            ELSE Ret([s3 EXCEPT !.cstate = StartEffect(@)], TRUE,
                     "Container started successfully")))

\* start_container from the second lookup on: containers.get, container.start.
start_container_engine(s, f) ==
    Bind(Call(s, "containers.get", "-"), LAMBDA s2 :
        IF Outcome(s2, s2.cstate = NOT_FOUND, f) = "raise" THEN Raise(s2)
        ELSE IF Outcome(s2, s2.cstate = NOT_FOUND, f) = "api"
        THEN Ret(ApiError(s2), FALSE, "Failed to start container")
        ELSE
        Bind(Call(s2, "container.start", "-"), LAMBDA s3 :
            IF Outcome(s3, f.mut \/ StartRefused(s3.cstate), f) = "raise"
            THEN Raise(s3)
            ELSE IF Outcome(s3, f.mut \/ StartRefused(s3.cstate), f) = "api"
            THEN Ret(ApiError(s3), FALSE, "Failed to start container")
            ELSE Ret([s3 EXCEPT !.cstate = StartEffect(@)], TRUE,
                     "Container started successfully")))

\* start_container without the early return on a running container.
start_container_no_running_check(s, f) ==
    Bind(client_property(s), LAMBDA r :
        IF r.v = None THEN Ret(r.s, FALSE, "Docker client not available")
        ELSE
        Bind(get_container_state(r.s, f), LAMBDA r1 :
            IF r1.exc THEN Raise(r1.s)
            ELSE IF r1.v = NOT_FOUND
            THEN Ret(r1.s, FALSE, "Container does not exist. Run setup first.")
            ELSE start_container_engine(r1.s, f)))

start_container(s, f) ==
    Bind(client_property(s), LAMBDA r :
        IF r.v = None THEN Ret(r.s, FALSE, "Docker client not available")
        ELSE
        Bind(get_container_state(r.s, f), LAMBDA r1 :
            IF r1.exc THEN Raise(r1.s)
            ELSE IF r1.v = NOT_FOUND
            THEN Ret(r1.s, FALSE, "Container does not exist. Run setup first.")
            ELSE IF r1.v = RUNNING
            THEN Ret(r1.s, TRUE, "Container is already running")
            ELSE start_container_engine(r1.s, f)))

\* What container.stop(timeout=10) makes of the container's state.
StopEffect(c) == IF c \in {RUNNING, PAUSED, RESTARTING} THEN EXITED ELSE c

\* stop_container without the early return on an absent container.
stop_container_no_absent_check(s, f) ==
    Bind(client_property(s), LAMBDA r :
        IF r.v = None THEN Ret(r.s, FALSE, "Docker client not available")
        ELSE
        Bind(get_container_state(r.s, f), LAMBDA r1 :
            IF r1.exc THEN Raise(r1.s)
            ELSE IF r1.v = EXITED THEN Ret(r1.s, TRUE, "Container is already stopped")
            ELSE
            Bind(Call(r1.s, "containers.get", "-"), LAMBDA s2 :
                IF Outcome(s2, s2.cstate = NOT_FOUND, f) = "raise" THEN Raise(s2)
                ELSE IF Outcome(s2, s2.cstate = NOT_FOUND, f) = "api"
                THEN Ret(ApiError(s2), FALSE, "Failed to stop container")
                ELSE
                Bind(Call(s2, "container.stop", "-"), LAMBDA s3 :
                    IF Outcome(s3, f.mut, f) = "raise" THEN Raise(s3)
                    ELSE IF Outcome(s3, f.mut, f) = "api"
                    THEN Ret(ApiError(s3), FALSE, "Failed to stop container")
                    ELSE Ret([s3 EXCEPT !.cstate = StopEffect(@)], TRUE,
                             "Container stopped successfully")))))

stop_container(s, f) ==
    Bind(client_property(s), LAMBDA r :
        IF r.v = None THEN Ret(r.s, FALSE, "Docker client not available")
        ELSE
        Bind(get_container_state(r.s, f), LAMBDA r1 :
            IF r1.exc THEN Raise(r1.s)
            ELSE IF r1.v = NOT_FOUND THEN Ret(r1.s, TRUE, "Container does not exist")
            ELSE IF r1.v = EXITED THEN Ret(r1.s, TRUE, "Container is already stopped")
            ELSE
            Bind(Call(r1.s, "containers.get", "-"), LAMBDA s2 :
                IF Outcome(s2, s2.cstate = NOT_FOUND, f) = "raise" THEN Raise(s2)
                ELSE IF Outcome(s2, s2.cstate = NOT_FOUND, f) = "api"
                THEN Ret(ApiError(s2), FALSE, "Failed to stop container")
                ELSE
                Bind(Call(s2, "container.stop", "-"), LAMBDA s3 :
                    IF Outcome(s3, f.mut, f) = "raise" THEN Raise(s3)
                    ELSE IF Outcome(s3, f.mut, f) = "api"
                    THEN Ret(ApiError(s3), FALSE, "Failed to stop container")
                    ELSE Ret([s3 EXCEPT !.cstate = StopEffect(@)], TRUE,
                             "Container stopped successfully")))))

\* What container.remove() (no force) refuses: a container that runs, is
\* paused or restarting, and one that is not there.
RemoveRefused(c) == c \in {RUNNING, PAUSED, RESTARTING, NOT_FOUND}

\* remove_container from the second lookup on: containers.get,
\* container.remove.  rmFault: the engine fails the remove call.
remove_container_engine(s, f, rmFault) ==
    Bind(Call(s, "containers.get", "-"), LAMBDA s2 :
        IF Outcome(s2, s2.cstate = NOT_FOUND, f) = "raise" THEN Raise(s2)
        ELSE IF Outcome(s2, s2.cstate = NOT_FOUND, f) = "api"
        THEN Ret(ApiError(s2), FALSE, "Failed to remove container")
        ELSE
        Bind(Call(s2, "container.remove", "-"), LAMBDA s3 :
            IF Outcome(s3, rmFault \/ RemoveRefused(s3.cstate), f) = "raise"
            THEN Raise(s3)
            ELSE IF Outcome(s3, rmFault \/ RemoveRefused(s3.cstate), f) = "api"
            THEN Ret(ApiError(s3), FALSE, "Failed to remove container")
            ELSE Ret([s3 EXCEPT !.cstate = NOT_FOUND], TRUE,
                     "Container removed successfully (data preserved)")))

\* remove_container that goes on to the remove call whatever stop_container
\* returned.
remove_container_ignores_stop(s, f, rmFault) ==
    Bind(client_property(s), LAMBDA r :
        IF r.v = None THEN Ret(r.s, FALSE, "Docker client not available")
        ELSE
        Bind(get_container_state(r.s, f), LAMBDA r1 :
            IF r1.exc THEN Raise(r1.s)
            ELSE IF r1.v = NOT_FOUND THEN Ret(r1.s, TRUE, "Container does not exist")
            ELSE IF r1.v = RUNNING
            THEN Bind(Noted(stop_container(Call(r1.s, "stop_container", "-"), f),
                            "stop_container.ok", "stop_container.msg"), LAMBDA r2 :
                    IF r2.exc THEN Raise(r2.s)
                    ELSE remove_container_engine(r2.s, f, rmFault))
            ELSE remove_container_engine(r1.s, f, rmFault)))

remove_container(s, f, rmFault) ==
    Bind(client_property(s), LAMBDA r :
        IF r.v = None THEN Ret(r.s, FALSE, "Docker client not available")
        ELSE
        Bind(get_container_state(r.s, f), LAMBDA r1 :
            IF r1.exc THEN Raise(r1.s)
            ELSE IF r1.v = NOT_FOUND THEN Ret(r1.s, TRUE, "Container does not exist")
            ELSE IF r1.v = RUNNING
            THEN Bind(Noted(stop_container(Call(r1.s, "stop_container", "-"), f),
                            "stop_container.ok", "stop_container.msg"), LAMBDA r2 :
                    IF r2.exc THEN Raise(r2.s)
                    ELSE IF ~r2.v.ok
                    THEN Ret(r2.s, FALSE, "Failed to stop container before removal")
                    ELSE remove_container_engine(r2.s, f, rmFault))
            ELSE remove_container_engine(r1.s, f, rmFault)))

\* The privileged helper (pkexec systemctl ...): its exit, and whether the
\* daemon it started accepts connections by the time the client is refreshed.
HelperOutcomes == {"ok", "nonzero", "timeout", "not_found"}
Helper == [rc : HelperOutcomes, ready : BOOLEAN]

HelperMessage(failed, rc) ==
    CASE rc = "nonzero" -> failed
      [] rc = "timeout" -> "Operation timed out"
      [] OTHER -> "systemctl not found"

start_daemon(s, h) ==
    Bind(is_daemon_running(s), LAMBDA r :
        IF r.v THEN Ret(r.s, TRUE, "Docker daemon is already running")
        ELSE
        Bind(Call(r.s, "pkexec systemctl start docker", h.rc), LAMBDA s1 :
            IF h.rc = "ok"
            THEN Ret(refresh_client([s1 EXCEPT !.daemonUp = @ \/ h.ready]).s,
                     TRUE, "Docker daemon started successfully")
            ELSE Ret(s1, FALSE, HelperMessage("Failed to start daemon", h.rc))))

stop_daemon(s, h) ==
    Bind(is_daemon_running(s), LAMBDA r :
        IF ~r.v THEN Ret(r.s, TRUE, "Docker daemon is already stopped")
        ELSE
        Bind(Call(r.s, "pkexec systemctl stop docker", h.rc), LAMBDA s1 :
            IF h.rc = "ok"
            THEN Ret([s1 EXCEPT !.daemonUp = FALSE, !.cstate = StopEffect(@),
                                !.client = None],
                     TRUE, "Docker daemon stopped successfully")
            ELSE Ret(s1, FALSE, HelperMessage("Failed to stop daemon", h.rc))))

\* create_container without the check for an existing container.
create_container_no_exists_check(s, f) ==
    Bind(client_property(s), LAMBDA r :
        IF r.v = None THEN Ret(r.s, FALSE, "Docker client not available")
        ELSE
        Bind(get_container_state(r.s, f), LAMBDA r1 :
            IF r1.exc THEN Raise(r1.s)
            ELSE
            Bind(Call(r1.s, "containers.create", Binds(build_volumes(r1.s.media_paths))),
                 LAMBDA s2 :
                IF Outcome(s2, f.mut \/ CreateRefused(s2), f) = "raise"
                THEN Raise(s2)
                ELSE IF Outcome(s2, f.mut \/ CreateRefused(s2), f) = "api"
                THEN Ret(ApiError(s2), FALSE, "Failed to create container")
                ELSE Ret([s2 EXCEPT !.cstate = CREATED], TRUE,
                         "Container created successfully"))))

create_container(s, f) ==
    Bind(client_property(s), LAMBDA r :
        IF r.v = None THEN Ret(r.s, FALSE, "Docker client not available")
        ELSE
        Bind(get_container_state(r.s, f), LAMBDA r1 :
            IF r1.exc THEN Raise(r1.s)
            ELSE IF r1.v # NOT_FOUND
            THEN Ret(r1.s, FALSE, "Container already exists. Remove it first to recreate.")
            ELSE
            Bind(Call(r1.s, "containers.create", Binds(build_volumes(r1.s.media_paths))),
                 LAMBDA s2 :
                IF Outcome(s2, f.mut \/ CreateRefused(s2), f) = "raise"
                THEN Raise(s2)
                ELSE IF Outcome(s2, f.mut \/ CreateRefused(s2), f) = "api"
                THEN Ret(ApiError(s2), FALSE, "Failed to create container")
                ELSE Ret([s2 EXCEPT !.cstate = CREATED], TRUE,
                         "Container created successfully"))))

get_logs(s, f) ==
    Bind(client_property(s), LAMBDA r :
        IF r.v = None THEN Res(r.s, "Docker client not available")
        ELSE
        Bind(Call(r.s, "containers.get", "-"), LAMBDA s1 :
            IF Outcome(s1, f.qry, f) = "raise" THEN Raise(s1)
            ELSE IF Outcome(s1, f.qry, f) = "api" THEN Res(s1, "Error getting logs")
            ELSE IF s1.cstate = NOT_FOUND THEN Res(s1, "Container not found")
            ELSE Res(Call(s1, "container.logs", "-"), "logs")))

\* What the engine's pull stream does: the image arrives, or the stream ends
\* without it (an error line inside the stream is not an APIError), or the
\* call fails with an APIError.
PullOutcomes == {"pulled", "ended_without_image", "api_error"}

\* pull_image(), consumed to its end.  The value is the last message yielded.
pull_image(s, f, out) ==
    Bind(client_property(s), LAMBDA r :
        IF r.v = None THEN Res(r.s, "Error: Docker client not available")
        ELSE
        Bind(Call(r.s, "api.pull", out), LAMBDA s1 :
            IF Outcome(s1, out = "api_error", f) = "raise" THEN Raise(s1)
            ELSE IF Outcome(s1, out = "api_error", f) = "api"
            THEN Res(s1, "Error pulling image")
            ELSE Res([s1 EXCEPT !.image = @ \/ (out = "pulled")],
                     "Image pulled successfully!")))

\* ------------------------------------------------ MainWindow, ControlPanel
\* A handler runs on the window's thread from start to end.  The thread objects
\* it holds are kept here as what the handler sees of them: a reference.
LogStreamerRef == "LogStreamer"
StatusPollerRef == "StatusPoller"

\* update_button_states where Start and Stop Daemon do not look at whether the
\* container is running.
update_button_states_any_container(s, daemon_state, container_state) ==
    [s EXCEPT !.buttons =
        [setup |-> daemon_state = DAEMON_RUNNING /\ container_state = NOT_FOUND,
         start |-> daemon_state = DAEMON_RUNNING /\ container_state # NOT_FOUND,
         stop  |-> container_state = RUNNING,
         stop_daemon |-> daemon_state = DAEMON_RUNNING]]

update_button_states(s, daemon_state, container_state) ==
    [s EXCEPT !.buttons =
        [setup |-> daemon_state = DAEMON_RUNNING /\ container_state = NOT_FOUND,
         start |-> /\ daemon_state = DAEMON_RUNNING
                   /\ container_state # NOT_FOUND
                   /\ container_state # RUNNING,
         stop  |-> container_state = RUNNING,
         stop_daemon |-> /\ daemon_state = DAEMON_RUNNING
                         /\ container_state # RUNNING]]

_on_status_updated(s, status) ==
    Call(update_button_states(s, status.daemon_state, status.container_state),
         "_on_status_updated", status.container_state)

\* wait(3000) returns whether the thread finished; its result is not read.
_stop_log_streaming(s) ==
    IF s.log_streamer # None
    THEN [Call(Call(s, "LogStreamer.stop", "-"), "LogStreamer.wait", "-")
            EXCEPT !.log_streamer = None]
    ELSE s

_stop_status_polling(s) ==
    IF s.status_poller # None
    THEN [Call(Call(s, "StatusPoller.stop", "-"), "StatusPoller.wait", "-")
            EXCEPT !.status_poller = None]
    ELSE s

_update_status(s, f) ==
    Bind(get_full_status(s, f, FALSE), LAMBDA r :
        IF r.exc THEN Raise(r.s) ELSE Res(_on_status_updated(r.s, r.v), r.v))

_start_log_streaming(s, f) ==
    Bind(get_logs(_stop_log_streaming(s), f), LAMBDA r :
        IF r.exc THEN Raise(r.s)
        ELSE Res([Call(r.s, "LogStreamer.start", "-")
                    EXCEPT !.log_streamer = LogStreamerRef], TRUE))

\* The slots run inside emit(); an exception in a slot ends the slot and is not
\* passed on to the emitter.
_on_container_started(s, f) ==
    Bind(_update_status(s, f), LAMBDA r :
        IF r.exc THEN r.s ELSE _start_log_streaming(r.s, f).s)

_on_container_stopped(s, f) == _update_status(_stop_log_streaming(s), f).s

_on_setup_complete(s, f) == _update_status(s, f).s

\* _on_start_clicked from the call of start_container on.
start_clicked_container(s, f) ==
    Bind(start_container(Call(s, "start_container", "-"), f), LAMBDA r :
        IF r.exc THEN Raise(r.s)
        ELSE IF r.v.ok
        THEN Res(_on_container_started(Call(r.s, "emit start_requested", "-"), f),
                 TRUE)
        ELSE Res(Call(r.s, "QMessageBox.critical", r.v.msg), FALSE))

\* _on_start_clicked without the return after a failed start_daemon.
_on_start_clicked_no_return(s, f, h) ==
    Bind(is_daemon_running(s), LAMBDA r0 :
        IF r0.v THEN start_clicked_container(r0.s, f)
        ELSE
        Bind(Noted(start_daemon(Call(r0.s, "start_daemon", "-"), h),
                   "start_daemon.ok", "start_daemon.msg"), LAMBDA r1 :
            IF ~r1.v.ok
            THEN start_clicked_container(
                    Call(r1.s, "QMessageBox.critical", r1.v.msg), f)
            ELSE start_clicked_container(r1.s, f)))

\* ControlPanel._on_stop_daemon: the Stop Daemon button.
_on_stop_daemon(s, f, h) ==
    Bind(get_container_state(s, f), LAMBDA r :
        IF r.exc THEN Raise(r.s)
        ELSE IF r.v = RUNNING
        THEN Res(Call(r.s, "QMessageBox.warning",
                      "Please stop the Jellyfin container first."), FALSE)
        ELSE Bind(Noted(stop_daemon(Call(r.s, "stop_daemon", "-"), h),
                        "stop_daemon.ok", "stop_daemon.msg"), LAMBDA r1 :
                IF ~r1.v.ok
                THEN Res(Call(r1.s, "QMessageBox.critical", r1.v.msg), FALSE)
                ELSE Res(r1.s, TRUE)))

_on_start_clicked(s, f, h) ==
    Bind(is_daemon_running(s), LAMBDA r0 :
        IF r0.v THEN start_clicked_container(r0.s, f)
        ELSE
        Bind(Noted(start_daemon(Call(r0.s, "start_daemon", "-"), h),
                   "start_daemon.ok", "start_daemon.msg"), LAMBDA r1 :
            IF ~r1.v.ok
            THEN Res(Call(r1.s, "QMessageBox.critical", r1.v.msg), FALSE)
            ELSE start_clicked_container(r1.s, f)))

_on_stop_clicked(s, f) ==
    Bind(stop_container(Call(s, "stop_container", "-"), f), LAMBDA r :
        IF r.exc THEN Raise(r.s)
        ELSE IF r.v.ok
        THEN Res(_on_container_stopped(Call(r.s, "emit stop_requested", "-"), f),
                 TRUE)
        ELSE Res(Call(r.s, "QMessageBox.critical", r.v.msg), FALSE))

_create_container(s, f) ==
    Bind(create_container(
            Call(Call(s, "ensure_directories", "-"), "create_container", "-"), f),
         LAMBDA r :
        IF r.exc THEN Raise(r.s)
        ELSE IF r.v.ok
        THEN Res(_on_setup_complete(
                    Call(Call(r.s, "QMessageBox.information", r.v.msg),
                         "emit setup_requested", "-"), f), TRUE)
        ELSE Res(Call(r.s, "QMessageBox.critical", r.v.msg), FALSE))

\* reply: the answer to "Jellyfin image needs to be downloaded ... Continue?".
\* The value says whether an ImagePullWorker was started.
_on_setup_clicked(s, f, reply) ==
    Bind(is_image_pulled(s, f), LAMBDA r :
        IF r.exc THEN Raise(r.s)
        ELSE IF ~r.v
        THEN (IF reply # "Yes"
              THEN Res(Call(r.s, "QMessageBox.question", reply), FALSE)
              ELSE Res(Call(Call(r.s, "QMessageBox.question", reply),
                            "ImagePullWorker.start", "-"), TRUE))
        ELSE Bind(_create_container(r.s, f), LAMBDA r2 :
                IF r2.exc THEN Raise(r2.s) ELSE Res(r2.s, FALSE)))

\* on_finished of _pull_image_with_progress, run for a queued finished signal.
on_finished(s, f, success) ==
    IF success THEN _create_container(Call(s, "progress.close", "-"), f)
    ELSE Res(Call(Call(s, "progress.close", "-"),
                  "QMessageBox.critical", "Failed to pull Jellyfin image."),
             FALSE)

\* The end of ImagePullWorker.run: the value is the argument of finished.
\* A worker that trusts the last message of the stream:
pull_result_trusts_stream(s, f, streamed) ==
    Res(s, streamed = "Image pulled successfully!")

pull_result(s, f, streamed) ==
    Bind(is_image_pulled(s, f), LAMBDA r :
        IF r.exc THEN Res(r.s, FALSE) ELSE Res(r.s, r.v))

\* closeEvent from "if self.config_manager.config.stop_daemon_on_exit" on,
\* without "Make sure container is stopped first".
closeEvent_daemon_no_container_stop(s, f, h) ==
    Bind(Call(s, "config.stop_daemon_on_exit", B2S(s.stop_daemon_on_exit)),
         LAMBDA s0 :
    IF ~s0.stop_daemon_on_exit THEN Res(Call(s0, "event.accept", "-"), TRUE)
    ELSE
    Bind(is_daemon_running(s0), LAMBDA r1 :
    IF ~r1.v THEN Res(Call(r1.s, "event.accept", "-"), TRUE)
    ELSE
    Bind(get_container_state(r1.s, f), LAMBDA r2 :
    IF r2.exc THEN Raise(r2.s)
    ELSE
    Bind(stop_daemon(Call(r2.s, "stop_daemon", "-"), h), LAMBDA r4 :
        IF r4.v.ok THEN Res(Call(r4.s, "event.accept", "-"), TRUE)
        ELSE Res(Call(Call(r4.s, "QMessageBox.warning", r4.v.msg),
                      "event.accept", "-"), TRUE)))))

\* closeEvent from "if self.config_manager.config.stop_daemon_on_exit" on.
closeEvent_daemon(s, f, h) ==
    Bind(Call(s, "config.stop_daemon_on_exit", B2S(s.stop_daemon_on_exit)),
         LAMBDA s0 :
    IF ~s0.stop_daemon_on_exit THEN Res(Call(s0, "event.accept", "-"), TRUE)
    ELSE
    Bind(is_daemon_running(s0), LAMBDA r1 :
    IF ~r1.v THEN Res(Call(r1.s, "event.accept", "-"), TRUE)
    ELSE
    Bind(get_container_state(r1.s, f), LAMBDA r2 :
    IF r2.exc THEN Raise(r2.s)
    ELSE
    Bind(IF r2.v = RUNNING
         THEN stop_container(Call(r2.s, "stop_container", "-"), f)
         ELSE Res(r2.s, None), LAMBDA r3 :
    IF r3.exc THEN Raise(r3.s)
    ELSE
    Bind(stop_daemon(Call(r3.s, "stop_daemon", "-"), h), LAMBDA r4 :
        IF r4.v.ok THEN Res(Call(r4.s, "event.accept", "-"), TRUE)
        ELSE Res(Call(Call(r4.s, "QMessageBox.warning", r4.v.msg),
                      "event.accept", "-"), TRUE))))))

\* closeEvent in which Cancel is taken as No.
closeEvent_cancel_as_no(s, reply, f, h) ==
    Bind(get_container_state(_stop_status_polling(_stop_log_streaming(s)), f),
         LAMBDA r2 :
    IF r2.exc THEN Raise(r2.s)
    ELSE IF r2.v # RUNNING THEN closeEvent_daemon(r2.s, f, h)
    ELSE IF reply = "Yes"
    THEN Bind(stop_container(
                 Call(Call(r2.s, "QMessageBox.question", reply),
                      "stop_container", "-"), f), LAMBDA r4 :
            IF r4.exc THEN Raise(r4.s) ELSE closeEvent_daemon(r4.s, f, h))
    ELSE closeEvent_daemon(Call(r2.s, "QMessageBox.question", reply), f, h))

\* closeEvent in which No is taken as Cancel.
closeEvent_no_as_cancel(s, reply, f, h) ==
    Bind(get_container_state(_stop_status_polling(_stop_log_streaming(s)), f),
         LAMBDA r2 :
    IF r2.exc THEN Raise(r2.s)
    ELSE IF r2.v # RUNNING THEN closeEvent_daemon(r2.s, f, h)
    ELSE IF reply = "Yes"
    THEN Bind(stop_container(
                 Call(Call(r2.s, "QMessageBox.question", reply),
                      "stop_container", "-"), f), LAMBDA r4 :
            IF r4.exc THEN Raise(r4.s) ELSE closeEvent_daemon(r4.s, f, h))
    ELSE Res(Call(Call(r2.s, "QMessageBox.question", reply), "event.ignore", "-"),
             FALSE))

\* reply: the answer to "Jellyfin container is still running. Stop it before
\* closing?".  The value says whether the close event was accepted.
closeEvent(s, reply, f, h) ==
    Bind(get_container_state(_stop_status_polling(_stop_log_streaming(s)), f),
         LAMBDA r2 :
    IF r2.exc THEN Raise(r2.s)
    ELSE IF r2.v # RUNNING THEN closeEvent_daemon(r2.s, f, h)
    ELSE IF reply = "Cancel"
    THEN Res(Call(Call(r2.s, "QMessageBox.question", reply), "event.ignore", "-"),
             FALSE)
    ELSE IF reply = "Yes"
    THEN Bind(stop_container(
                 Call(Call(r2.s, "QMessageBox.question", reply),
                      "stop_container", "-"), f), LAMBDA r4 :
            IF r4.exc THEN Raise(r4.s) ELSE closeEvent_daemon(r4.s, f, h))
    ELSE closeEvent_daemon(Call(r2.s, "QMessageBox.question", reply), f, h))

\* ----------------------------------------------------- LogStreamer
\* stream_logs() up to its first yield: the value says whether the engine's
\* log stream was opened (otherwise one message is yielded and the generator
\* ends).
stream_logs(s, f) ==
    Bind(client_property(s), LAMBDA r :
        IF r.v = None THEN Res(r.s, FALSE)
        ELSE
        Bind(Call(r.s, "containers.get", "-"), LAMBDA s1 :
            IF Outcome(s1, f.qry \/ s1.cstate = NOT_FOUND, f) = "raise"
            THEN Raise(s1)
            ELSE IF Outcome(s1, f.qry \/ s1.cstate = NOT_FOUND, f) = "api"
            THEN Res(s1, FALSE)
            ELSE Res(Call(s1, "container.logs(stream)", "-"), TRUE)))

\* A LogStreamer thread: where its run() is, whether MainWindow._log_streamer
\* still refers to it, _stop_requested, whether the engine's stream it reads is
\* still open, how many times it emitted stopped, the way it left run(), and
\* how many lines it took from the stream (after) and emitted as log_line
\* (relayed) since stop() was called on it; whether the container was running
\* when run() asked for its state, and whether run() emitted error, called
\* stream_logs() and emitted any log_line.
NoThread ==
    [pc |-> "none", ref |-> FALSE, stop_requested |-> FALSE, open |-> FALSE,
     stopped |-> 0, path |-> None, after |-> 0, relayed |-> 0,
     running_at_start |-> FALSE, error |-> FALSE, streamed |-> FALSE,
     lines |-> FALSE]

NewThread ==
    [pc |-> "start", ref |-> TRUE, stop_requested |-> FALSE, open |-> FALSE,
     stopped |-> 0, path |-> None, after |-> 0, relayed |-> 0,
     running_at_start |-> FALSE, error |-> FALSE, streamed |-> FALSE,
     lines |-> FALSE]

\* The finally clause of run(): stopped is emitted and the thread ends.
run_finally(th, path) ==
    [th EXCEPT !.pc = "done", !.open = FALSE, !.stopped = @ + 1, !.path = path]

\* run() from its start to the first wait for a line.  state: the result of
\* get_container_state(); opened: the result of stream_logs().
run_start_no_state_check(th, state, opened) ==
    IF state.exc THEN run_finally([th EXCEPT !.error = TRUE], "error")
    ELSE IF opened.exc
    THEN run_finally([th EXCEPT !.error = TRUE, !.streamed = TRUE], "error")
    ELSE IF ~opened.v
    THEN run_finally([th EXCEPT !.streamed = TRUE, !.lines = ~th.stop_requested],
                     IF th.stop_requested THEN "cancelled" ELSE "exhausted")
    ELSE [th EXCEPT !.pc = "stream", !.open = TRUE, !.streamed = TRUE]

run_start(th, state, opened) ==
    IF state.exc THEN run_finally([th EXCEPT !.error = TRUE], "error")
    ELSE IF state.v # RUNNING
    THEN run_finally([th EXCEPT !.stopped = @ + 1, !.error = TRUE], "not_running")
    ELSE IF opened.exc
    THEN run_finally([th EXCEPT !.error = TRUE, !.streamed = TRUE], "error")
    ELSE IF ~opened.v
    THEN run_finally([th EXCEPT !.streamed = TRUE, !.lines = ~th.stop_requested],
                     IF th.stop_requested THEN "cancelled" ELSE "exhausted")
    ELSE [th EXCEPT !.pc = "stream", !.open = TRUE, !.streamed = TRUE]

\* The count n, one more, kept within MaxAfter.
Counted(n) == IF n < MaxAfter THEN n + 1 ELSE n

\* run() where the loop does not look at _stop_requested: every line is emitted.
run_line_no_check(th) ==
    IF th.stop_requested
    THEN [th EXCEPT !.after = Counted(@), !.relayed = Counted(@), !.lines = TRUE]
    ELSE [th EXCEPT !.lines = TRUE]

\* run(), one line read from the stream: with _stop_requested set the loop
\* breaks before log_line is emitted.
run_line(th) ==
    IF th.stop_requested
    THEN run_finally([th EXCEPT !.after = Counted(@)], "cancelled")
    ELSE [th EXCEPT !.lines = TRUE]

\* The engine's stream of a container stays open while the container runs or
\* is paused.
StreamOpen(up, c) == up /\ c \in {RUNNING, PAUSED}

\* ----------------------------------------------------- StatusPoller
\* A StatusPoller thread: where its run() is, _stop_requested, and how its last
\* tick and the one before ended: "emitted" (a snapshot was emitted), "failed"
\* (get_full_status() raised).
NewPoller == [pc |-> "run", stop_requested |-> FALSE, tick |-> None, prev |-> None]

\* run() where an exception of get_full_status() is not caught.
poll_tick_no_except(p, emitted) ==
    [p EXCEPT !.pc = IF emitted THEN @ ELSE "done",
              !.prev = p.tick,
              !.tick = IF emitted THEN "emitted" ELSE "failed"]

\* run(), the try statement of one tick: the thread after it.
poll_tick(p, emitted) ==
    [p EXCEPT !.prev = p.tick, !.tick = IF emitted THEN "emitted" ELSE "failed"]

\* The thread after a handler: stop() and wait(3000) of _stop_status_polling
\* end it.
poller_after(p, stopped) ==
    IF stopped THEN [p EXCEPT !.stop_requested = TRUE, !.pc = "done"] ELSE p

\* ------------------------------------- LogStreamer.run, by statement
\* One LogStreamer.run from its first wait for a line on: where it is ("next":
\* waiting in the for statement, "check": a line in hand, before the test of
\* _stop_requested, "emit": the test passed, before log_line.emit), the lines
\* stream_logs() yielded, the line in hand, the lines emitted as log_line,
\* where the loop was when stop() was called, how many lines were emitted
\* after stop() returned, how many times stopped was emitted.
NewRelay ==
    [pc |-> "next", stop_requested |-> FALSE, produced |-> <<>>, line |-> None,
     emitted |-> <<>>, at_stop |-> None, after |-> 0, stopped |-> 0,
     error |-> FALSE]

\* for line in stream_logs(): the generator yields a line.
loop_next(r, line) ==
    [r EXCEPT !.pc = "check", !.line = line, !.produced = Append(@, line)]

\* The loop is left (the generator ends, it raises, or break): the error is
\* emitted if any, then stopped in the finally clause.
loop_exit(r, error) ==
    [r EXCEPT !.pc = "done", !.line = None, !.stopped = @ + 1, !.error = error]

\* The loop without the test of _stop_requested.
loop_check_no_flag(r) == [r EXCEPT !.pc = "emit"]

\* with QMutexLocker(self._mutex): if self._stop_requested: break
loop_check(r) ==
    IF r.stop_requested THEN loop_exit(r, FALSE) ELSE [r EXCEPT !.pc = "emit"]

\* The loop emitting each line ahead of the ones emitted before.
loop_emit_newest_first(r) ==
    [r EXCEPT !.pc = "next", !.line = None, !.emitted = <<r.line>> \o @,
              !.after = IF r.stop_requested THEN @ + 1 ELSE @]

\* self.log_line.emit(line)
loop_emit(r) ==
    [r EXCEPT !.pc = "next", !.line = None, !.emitted = Append(@, r.line),
              !.after = IF r.stop_requested THEN @ + 1 ELSE @]

\* LogStreamer.stop()
LogStreamer_stop(r) ==
    [r EXCEPT !.stop_requested = TRUE,
              !.at_stop = IF r.stop_requested THEN @ ELSE r.pc]

\* ------------------------------------ StatusPoller.run, by statement
\* StatusPoller.run: where it is ("top": before the test of _stop_requested at
\* the head of the loop, "call": the test passed, before get_full_status() is
\* entered, "query": inside get_full_status(), "emit": a snapshot in hand,
\* "slice": before the test in the sleep loop, "sleep": before msleep(100)),
\* the slices slept in this interval, the snapshot in hand, how many snapshots
\* get_full_status() has returned on either thread (each is numbered by it),
\* the snapshots emitted and not yet handled by the window, the numbers of the
\* snapshots the window applied, in the order it applied them, where run() was
\* when stop() was called, and what it did after stop() returned.
NoSnapshot == [n |-> 0, status |-> NoStatus]

NewPolling ==
    [pc |-> "top", stop_requested |-> FALSE, slices |-> 0, held |-> NoSnapshot,
     produced |-> 0, queue |-> <<>>, applied |-> <<>>, at_stop |-> None,
     queries_after |-> 0, emits_after |-> 0, sleeps_after |-> 0]

After(p, n) == IF p.stop_requested THEN n + 1 ELSE n

\* with QMutexLocker(self._mutex): if self._stop_requested: break
poll_check(p) ==
    [p EXCEPT !.pc = IF p.stop_requested THEN "done" ELSE "call"]

\* get_full_status() is entered.
poll_call(p) ==
    [p EXCEPT !.pc = "query", !.queries_after = After(p, @)]

\* get_full_status() returns the status, or raises and the tick is skipped.
poll_return(p, r) ==
    IF r.exc THEN [p EXCEPT !.pc = "slice", !.slices = 0]
    ELSE [p EXCEPT !.pc = "emit", !.produced = @ + 1,
                   !.held = [n |-> p.produced + 1, status |-> r.v]]

\* self.status_updated.emit(status): queued for the window's thread.
poll_emit(p) ==
    [p EXCEPT !.pc = "slice", !.slices = 0, !.held = NoSnapshot,
              !.queue = Append(@, p.held), !.emits_after = After(p, @)]

\* The sleep loop without the test of _stop_requested.
poll_slice_no_flag(p) ==
    [p EXCEPT !.pc = IF p.slices = Slices THEN "top" ELSE "sleep"]

\* for _ in range(self.interval_ms // 100): if self._stop_requested: return
poll_slice(p) ==
    [p EXCEPT !.pc = IF p.slices = Slices THEN "top"
                     ELSE IF p.stop_requested THEN "done" ELSE "sleep"]

\* self.msleep(100)
poll_sleep(p) ==
    [p EXCEPT !.pc = "slice", !.slices = @ + 1, !.sleeps_after = After(p, @)]

\* StatusPoller.stop()
StatusPoller_stop(p) ==
    [p EXCEPT !.stop_requested = TRUE,
              !.at_stop = IF p.stop_requested THEN @ ELSE p.pc]

\* The window's thread handles the oldest queued status_updated.
poll_deliver(p) ==
    [p EXCEPT !.queue = Tail(@), !.applied = Append(@, Head(p.queue).n)]

\* _update_status on the window's thread: the snapshot get_full_status()
\* returned there is applied at once.
poll_manual(p) ==
    [p EXCEPT !.produced = @ + 1, !.applied = Append(@, p.produced + 1)]

\* ---------- ControlPanel's configuration handlers and save, by statement
\* AppConfig(): the defaults of a configuration that was never saved.
AppConfig ==
    [media_paths |-> <<>>, stop_daemon_on_exit |-> FALSE, enable_hw_accel |-> TRUE]

\* The file app_config.json: absent, empty (opened for writing, nothing
\* written), or holding the JSON text of a configuration.
NoData ==
    [media_paths |-> <<>>, stop_daemon_on_exit |-> FALSE, enable_hw_accel |-> FALSE]
AbsentFile == [content |-> "absent", data |-> NoData]
EmptyFile == [content |-> "empty", data |-> NoData]

\* json.dump(_serialize_config(config)): the paths as strings, the flags as
\* they are.
JsonFile(config) ==
    [content |-> "json",
     data |-> [config EXCEPT !.media_paths = _serialize_config(@)]]

\* The panel after construction on a disk without a configuration file: where
\* a handler is (pc), ConfigManager._config, the items of media_list, the
\* file, the file as it was when the save in progress began, and the item
\* _on_add_media adds once add_media_path has returned.
NewPanel ==
    [pc |-> "idle", config |-> AppConfig, media_list |-> <<>>,
     file |-> AbsentFile, before |-> AbsentFile, pending |-> None]

\* The sequence without its element at position i.
RemoveAt(seq, i) == [j \in 1..(Len(seq) - 1) |-> IF j < i THEN seq[j] ELSE seq[j + 1]]

\* save() entered: the next statement is open(config_path, 'w').
save_begin(p) == [p EXCEPT !.pc = "open", !.before = p.file]

\* open(self.config_path, 'w'): the file is created or cut to no content.
save_open(p) == [p EXCEPT !.pc = "dump", !.file = EmptyFile]

\* json.dump and the end of the with block: the text is in the file, save()
\* returns to the handler, which adds its pending item.
save_dump(p) ==
    [p EXCEPT !.pc = "idle", !.file = JsonFile(p.config), !.before = AbsentFile,
              !.media_list = IF p.pending = None THEN @ ELSE Append(@, p.pending),
              !.pending = None]

\* _on_add_media with a folder chosen: add_media_path saves a path that is
\* not in the list, and the item is added to media_list in either case.
_on_add_media(p, path) ==
    IF ~InSeq(path, p.config.media_paths)
    THEN save_begin([p EXCEPT !.config.media_paths = Append(@, path),
                              !.pending = Str(path)])
    ELSE [p EXCEPT !.media_list = Append(@, Str(path))]

\* _on_remove_media with row current selected: the item is taken from
\* media_list, then remove_media_path removes its path and saves.
_on_remove_media(p, current, path) ==
    IF InSeq(path, p.config.media_paths)
    THEN save_begin([p EXCEPT !.media_list = RemoveAt(@, current),
                              !.config.media_paths = RemoveFirst(@, path)])
    ELSE [p EXCEPT !.media_list = RemoveAt(@, current)]

\* _on_stop_daemon_changed(state)
_on_stop_daemon_changed(p, checked) ==
    save_begin([p EXCEPT !.config.stop_daemon_on_exit = checked])

\* _on_hw_accel_changed(state), up to the return of save()
_on_hw_accel_changed(p, checked) ==
    save_begin([p EXCEPT !.config.enable_hw_accel = checked])

\* The process ends where it is.
crashed(p) == [p EXCEPT !.pc = "crashed", !.pending = None]

\* The application started again: load() answers the defaults for a missing
\* file and for a file json.load cannot read; _load_config_to_ui fills
\* media_list from the configuration. paths: the Path of each string read.
restarted(p, paths) ==
    [pc |-> "idle",
     config |-> IF p.file.content = "json"
                THEN [p.file.data EXCEPT !.media_paths = paths]
                ELSE AppConfig,
     media_list |-> IF p.file.content = "json" THEN p.file.data.media_paths
                    ELSE <<>>,
     file |-> p.file, before |-> AbsentFile, pending |-> None]

\* --------------------------- StatusPoller.run, its sleep between two ticks
\* StatusPoller(docker_manager, interval_ms): the statement run() is at, the
\* index of the sleep loop, the time slept since the last tick, and whether a
\* tick was made.
NewTimer(interval_ms) ==
    [interval_ms |-> interval_ms, pc |-> "tick", i |-> 0, slept |-> 0,
     ticked |-> FALSE]

\* get_full_status() and the emit of one tick; the sleep loop is entered.
timer_tick(tm) == [tm EXCEPT !.pc = "slice", !.i = 0, !.slept = 0, !.ticked = TRUE]

\* for _ in range(self.interval_ms // 100)
timer_slice(tm) ==
    [tm EXCEPT !.pc = IF tm.i < tm.interval_ms \div 100 THEN "sleep" ELSE "tick"]

\* self.msleep(100)
timer_sleep(tm) == [tm EXCEPT !.pc = "slice", !.i = @ + 1, !.slept = @ + 100]

\* ------------------------------------------------------ reading a trace
HasCall(calls, name) == \E i \in 1..Len(calls) : calls[i].c = name

\* The place of the first and of the last call of that name; 0 when there is
\* none.
FirstCall(calls, name) ==
    IF HasCall(calls, name)
    THEN CHOOSE i \in 1..Len(calls) :
            calls[i].c = name /\ \A j \in 1..(i - 1) : calls[j].c # name
    ELSE 0

LastCall(calls, name) ==
    IF HasCall(calls, name)
    THEN CHOOSE i \in 1..Len(calls) :
            calls[i].c = name /\ \A j \in (i + 1)..Len(calls) : calls[j].c # name
    ELSE 0

Answer(calls, name) ==
    IF HasCall(calls, name) THEN calls[LastCall(calls, name)].a ELSE None

FirstAnswer(calls, name) ==
    IF HasCall(calls, name) THEN calls[FirstCall(calls, name)].a ELSE None

\* ------------------------------------------------- the adapter, called
Faults == [qry : BOOLEAN, mut : BOOLEAN, conn : {"APIError", "ConnectionError"}]
NoFault == [qry |-> FALSE, mut |-> FALSE, conn |-> "APIError"]

\* The faults that matter to a method that makes queries only, and to one that
\* makes a single call.
QueryFaults == {f \in Faults : ~f.mut}
ConnFaults == {f \in Faults : ~f.qry /\ ~f.mut}

AllButtons == [setup |-> TRUE, start |-> TRUE, stop |-> TRUE, stop_daemon |-> TRUE]

World == [installed |-> installed, daemonUp |-> daemonUp, autostart |-> autostart,
          cstate |-> cstate, image |-> image, sdk |-> sdk, client |-> client,
          media_paths |-> media_paths, persisted |-> persisted]

NoWorld == [installed |-> FALSE, daemonUp |-> FALSE, autostart |-> FALSE,
            cstate |-> None, image |-> FALSE, sdk |-> FALSE, client |-> None,
            media_paths |-> <<>>, persisted |-> [exists |-> FALSE, media_paths |-> <<>>]]

Pack == [installed |-> installed, daemonUp |-> daemonUp, autostart |-> autostart,
         cstate |-> cstate, image |-> image, sdk |-> sdk, client |-> client,
         stop_daemon_on_exit |-> stop_daemon_on_exit, buttons |-> buttons,
         log_streamer |-> log_streamer, status_poller |-> status_poller,
         media_paths |-> media_paths, persisted |-> persisted,
         calls |-> <<>>]

Commit(s) ==
    /\ installed' = s.installed
    /\ daemonUp' = s.daemonUp
    /\ autostart' = s.autostart
    /\ cstate' = s.cstate
    /\ image' = s.image
    /\ sdk' = s.sdk
    /\ client' = s.client

Idle ==
    [op |-> None, exc |-> FALSE, ok |-> FALSE, msg |-> None, status |-> NoStatus,
     calls |-> <<>>, pre |-> NoWorld]

NoWorker ==
    [pc |-> "none", streamed |-> None, dialog |-> FALSE, reply |-> None,
     finished |-> 0]

NoSignal ==
    [w |-> 0, success |-> FALSE, check |-> None, reply |-> None, streamed |-> None]

UiIdle ==
    [handler |-> None, exc |-> FALSE, ret |-> FALSE, calls |-> <<>>,
     pre |-> NoWorld, sig |-> NoSignal, reply |-> None]

\* streak counts the calls made in succession (no change of the environment in
\* between) of one method with one result.
Count(op, msg) ==
    /\ last.op # op \/ streak < MaxStreak
    /\ streak' = IF last.op = op /\ last.msg = msg THEN streak + 1 ELSE 1

\* A call of a method that returns (ok, message).
Returned(op, r) ==
    /\ Commit(r.s)
    /\ Count(op, IF r.exc THEN None ELSE r.v.msg)
    /\ last' = [op |-> op, exc |-> r.exc,
                ok |-> IF r.exc THEN FALSE ELSE r.v.ok,
                msg |-> IF r.exc THEN None ELSE r.v.msg,
                status |-> NoStatus, calls |-> r.s.calls, pre |-> World]
    /\ UNCHANGED uiVars

DoGetFullStatus ==
    \E f \in QueryFaults, rm \in BOOLEAN :
        \E r \in {get_full_status(Pack, f, rm)} :
            /\ Commit(r.s)
            /\ Count("get_full_status", None)
            /\ last' = [op |-> "get_full_status", exc |-> r.exc, ok |-> ~r.exc,
                        msg |-> None, status |-> IF r.exc THEN NoStatus ELSE r.v,
                        calls |-> r.s.calls, pre |-> World]
            /\ UNCHANGED uiVars

DoGetContainerState ==
    \E f \in QueryFaults :
        \E r \in {get_container_state(Pack, f)} :
            /\ Commit(r.s)
            /\ Count("get_container_state", r.v)
            /\ last' = [op |-> "get_container_state", exc |-> r.exc, ok |-> ~r.exc,
                        msg |-> r.v, status |-> NoStatus, calls |-> r.s.calls,
                        pre |-> World]
            /\ UNCHANGED uiVars

\* An access to the client property, or refresh_client().
DoClient ==
    \E c \in ConnectOutcomes(daemonUp), refresh \in BOOLEAN :
        \E r \in {IF refresh THEN refresh_client_connect(Pack, c)
                  ELSE Bind(client_connect(Pack, c), LAMBDA x :
                          IF x.exc THEN x ELSE Res(x.s, x.v # None))} :
            /\ Commit(r.s)
            /\ Count(IF refresh THEN "refresh_client" ELSE "client", None)
            /\ last' = [op |-> IF refresh THEN "refresh_client" ELSE "client",
                        exc |-> r.exc, ok |-> IF r.exc THEN FALSE ELSE r.v,
                        msg |-> None, status |-> NoStatus, calls |-> r.s.calls,
                        pre |-> World]
            /\ UNCHANGED uiVars

DoStartContainer ==
    \E f \in Faults : Returned("start_container", start_container(Pack, f))

DoStopContainer ==
    \E f \in Faults : Returned("stop_container", stop_container(Pack, f))

DoIsDaemonRunning ==
    \E r \in {is_daemon_running(Pack)} :
        /\ Commit(r.s)
        /\ Count("is_daemon_running", None)
        /\ last' = [op |-> "is_daemon_running", exc |-> FALSE, ok |-> r.v,
                    msg |-> None, status |-> NoStatus, calls |-> r.s.calls,
                    pre |-> World]
        /\ UNCHANGED uiVars

DoStartDaemon ==
    \E h \in Helper : Returned("start_daemon", start_daemon(Pack, h))

DoStopDaemon ==
    \E h \in Helper : Returned("stop_daemon", stop_daemon(Pack, h))

DoCreateContainer ==
    \E f \in Faults : Returned("create_container", create_container(Pack, f))

DoRemoveContainer ==
    \E f \in Faults, rmFault \in BOOLEAN :
        Returned("remove_container", remove_container(Pack, f, rmFault))

\* ------------------------------------------------------ the environment
\* The daemon, the containers and the images also change outside the
\* application (systemctl, the docker command line, a reboot).  A log stream
\* ends when its container stops or the daemon goes down.
Observe ==
    /\ last' = Idle
    /\ streak' = 0
    /\ ui' = UiIdle
    /\ threads' = [i \in 1..MaxStreamers |->
                     [threads[i] EXCEPT !.open = @ /\ StreamOpen(daemonUp', cstate')]]
    /\ UNCHANGED <<cfgVars, stepVars, window, buttons, log_streamer,
                   pollVars, workers, signals>>

EnvDaemon ==
    /\ daemonUp' = ~daemonUp
    /\ cstate' = IF daemonUp THEN StopEffect(cstate) ELSE cstate
    /\ UNCHANGED <<installed, autostart, image, sdk, client>>
    /\ Observe

EnvContainer ==
    /\ daemonUp
    /\ \E c \in ContainerState \ {cstate} : cstate' = c
    /\ UNCHANGED <<installed, daemonUp, autostart, image, sdk, client>>
    /\ Observe

\* docker rm: the container is removed outside the application.
EnvContainerRemoved ==
    /\ daemonUp
    /\ cstate # NOT_FOUND
    /\ cstate' = NOT_FOUND
    /\ UNCHANGED <<installed, daemonUp, autostart, image, sdk, client>>
    /\ Observe

EnvImage ==
    /\ daemonUp
    /\ image' = ~image
    /\ UNCHANGED <<installed, daemonUp, autostart, cstate, sdk, client>>
    /\ Observe

EnvAutostart ==
    /\ autostart' = ~autostart
    /\ UNCHANGED <<installed, daemonUp, cstate, image, sdk, client>>
    /\ Observe

EnvInstalled ==
    /\ installed' = ~installed
    /\ UNCHANGED <<daemonUp, autostart, cstate, image, sdk, client>>
    /\ Observe

\* MainWindow.__init__: no log streamer, the status poller started, every
\* button as created (enabled).
InitWindow ==
    /\ window = "open"
    /\ buttons = AllButtons
    /\ log_streamer = None
    /\ status_poller = StatusPollerRef
    /\ poller = NewPoller
    /\ threads = [i \in 1..MaxStreamers |-> NoThread]
    /\ workers = [i \in 1..MaxPulls |-> NoWorker]
    /\ signals = <<>>
    /\ ui = UiIdle
    /\ media_paths = <<>>
    /\ persisted = NoFile
    /\ relay = NewRelay
    /\ polling = NewPolling
    /\ panel = NewPanel
    /\ timer = NewTimer(2000)

Init ==
    /\ installed \in BOOLEAN
    /\ sdk \in BOOLEAN
    /\ daemonUp = FALSE
    /\ autostart = FALSE
    /\ cstate = NOT_FOUND
    /\ image = FALSE
    /\ client = None
    /\ last = Idle
    /\ streak = 0
    /\ stop_daemon_on_exit = FALSE
    /\ InitWindow

Next ==
    \/ DoClient
    \/ DoGetFullStatus
    \/ DoGetContainerState
    \/ DoIsDaemonRunning
    \/ DoStartDaemon
    \/ DoStopDaemon
    \/ DoCreateContainer
    \/ DoStartContainer
    \/ DoStopContainer
    \/ DoRemoveContainer
    \/ EnvDaemon
    \/ EnvContainer
    \/ EnvImage
    \/ EnvAutostart
    \/ EnvInstalled

Spec == Init /\ [][Next]_vars

\* ------------------------------------------- the window, its handlers run
Replies == {"Yes", "No", "Cancel"}
HelperUI == {[rc |-> "ok", ready |-> TRUE], [rc |-> "ok", ready |-> FALSE],
             [rc |-> "nonzero", ready |-> FALSE]}

CommitWindow(s) ==
    /\ Commit(s)
    /\ buttons' = s.buttons
    /\ log_streamer' = s.log_streamer
    /\ status_poller' = s.status_poller
    /\ UNCHANGED <<cfgVars, stepVars, last, streak>>

CommitUI(s) ==
    /\ CommitWindow(s)
    /\ poller' = poller_after(poller, status_poller # None /\ s.status_poller = None)

Handled(name, r, sig, reply) ==
    [handler |-> name, exc |-> r.exc, ret |-> IF r.exc THEN FALSE ELSE r.v,
     calls |-> r.s.calls, pre |-> World, sig |-> sig, reply |-> reply]

DialogOpen == \E i \in 1..MaxPulls : workers[i].dialog

Ready == window = "open" /\ ~DialogOpen

\* StatusPoller.run, one round, and the slot its signal runs: a poll that
\* raises is skipped.
StatusPoller_run(s, f) ==
    Bind(get_full_status(s, f, FALSE), LAMBDA r :
        IF r.exc THEN Res(r.s, FALSE)
        ELSE Res(_on_status_updated(Call(r.s, "emit status_updated", "-"), r.v),
                 TRUE))

UiStatusPolled ==
    /\ Ready
    /\ status_poller # None
    /\ poller.pc = "run"
    /\ \E f \in QueryFaults :
        \E r \in {StatusPoller_run(Pack, f)} :
            /\ CommitWindow(r.s)
            /\ poller' = poll_tick(poller, r.v)
            /\ ui' = Handled("_on_status_updated", r, NoSignal, None)
            /\ UNCHANGED <<window, threads, workers, signals>>

UiStartClicked ==
    /\ Ready
    /\ buttons.start
    /\ \E f \in Faults, h \in HelperUI :
        \E r \in {_on_start_clicked(Pack, f, h)} :
            /\ CommitUI(r.s)
            /\ ui' = Handled("_on_start_clicked", r, NoSignal, None)
            /\ UNCHANGED <<window, threads, workers, signals>>

UiStopClicked ==
    /\ Ready
    /\ buttons.stop
    /\ \E f \in Faults :
        \E r \in {_on_stop_clicked(Pack, f)} :
            /\ CommitUI(r.s)
            /\ ui' = Handled("_on_stop_clicked", r, NoSignal, None)
            /\ UNCHANGED <<window, threads, workers, signals>>

UiStopDaemonClicked ==
    /\ Ready
    /\ buttons.stop_daemon
    /\ \E f \in Faults, h \in HelperUI :
        \E r \in {_on_stop_daemon(Pack, f, h)} :
            /\ CommitUI(r.s)
            /\ ui' = Handled("_on_stop_daemon", r, NoSignal, None)
            /\ UNCHANGED <<window, threads, workers, signals>>

\* An exception that leaves closeEvent leaves the event accepted.
UiCloseEvent ==
    /\ Ready
    /\ \E reply \in Replies, f \in Faults, h \in HelperUI :
        \E r \in {closeEvent(Pack, reply, f, h)} :
            /\ CommitUI(r.s)
            /\ ui' = Handled("closeEvent", r, NoSignal, reply)
            /\ window' = IF r.exc \/ r.v THEN "closed" ELSE "open"
            /\ UNCHANGED <<threads, workers, signals>>

InitUI ==
    /\ installed = TRUE
    /\ sdk \in BOOLEAN
    /\ daemonUp = FALSE
    /\ autostart = FALSE
    /\ cstate = NOT_FOUND
    /\ image = TRUE
    /\ client = None
    /\ last = Idle
    /\ streak = 0
    /\ stop_daemon_on_exit \in BOOLEAN
    /\ InitWindow

NextUI ==
    \/ UiStartClicked
    \/ UiStopClicked
    \/ UiStopDaemonClicked
    \/ UiCloseEvent
    \/ UiStatusPolled
    \/ EnvDaemon
    \/ EnvContainer

SpecUI == InitUI /\ [][NextUI]_vars

\* ----------------------------------------------- setup and the image pull
FreeSlots == {i \in 1..MaxPulls : workers[i].pc = "none"}

WorkerStep ==
    /\ ui' = UiIdle
    /\ UNCHANGED <<last, streak, cfgVars, stepVars, window, buttons, log_streamer,
                   pollVars, threads>>

\* _pull_image_with_progress: the worker starts with its progress dialog open.
UiSetupClicked ==
    /\ Ready
    /\ buttons.setup
    /\ \E f \in Faults, reply \in {"Yes", "No"} :
        \E r \in {_on_setup_clicked(Pack, f, reply)} :
            /\ (~r.exc /\ r.v) => FreeSlots # {}
            /\ CommitUI(r.s)
            /\ ui' = Handled("_on_setup_clicked", r, NoSignal, reply)
            /\ workers' = IF ~r.exc /\ r.v
                          THEN [workers EXCEPT ![CHOOSE i \in FreeSlots :
                                                   \A j \in FreeSlots : i <= j] =
                                 [pc |-> "run", streamed |-> None, dialog |-> TRUE,
                                  reply |-> reply, finished |-> 0]]
                          ELSE workers
            /\ UNCHANGED <<window, threads, signals>>

\* The Cancel button of the progress dialog hides the dialog.
ProgressCancel ==
    /\ window = "open"
    /\ \E i \in 1..MaxPulls :
        /\ workers[i].dialog
        /\ workers' = [workers EXCEPT ![i].dialog = FALSE]
    /\ UNCHANGED <<envVars, client, signals>>
    /\ WorkerStep

\* ImagePullWorker.run, the loop over pull_image(): an exception other than
\* APIError ends the run with finished(False).
PullStream ==
    /\ window = "open"
    /\ \E i \in 1..MaxPulls, f \in ConnFaults, out \in PullOutcomes :
        /\ workers[i].pc = "run"
        /\ \E r \in {pull_image(Pack, f, out)} :
               /\ Commit(r.s)
               /\ workers' = [workers EXCEPT
                                ![i].pc = IF r.exc THEN "done" ELSE "check",
                                ![i].streamed = IF r.exc THEN None ELSE r.v,
                                ![i].finished = IF r.exc THEN @ + 1 ELSE @]
               /\ signals' = IF r.exc
                             THEN Append(signals, [w |-> i, success |-> FALSE,
                                                   check |-> None,
                                                   reply |-> workers[i].reply,
                                                   streamed |-> None])
                             ELSE signals
    /\ WorkerStep

\* ImagePullWorker.run, after the loop: the presence check and finished.
\* observed: the signal is entered with the last message its run streamed.
PullChecked(observed) ==
    /\ window = "open"
    /\ \E i \in 1..MaxPulls, f \in QueryFaults :
        /\ workers[i].pc = "check"
        /\ \E r \in {pull_result(Pack, f, workers[i].streamed)} :
               /\ Commit(r.s)
               /\ workers' = [workers EXCEPT ![i].pc = "done", ![i].streamed = None,
                                             ![i].finished = @ + 1]
               /\ signals' = Append(signals,
                                [w |-> i, success |-> r.v,
                                 check |-> Answer(r.s.calls, "is_image_pulled"),
                                 reply |-> workers[i].reply,
                                 streamed |-> IF observed THEN workers[i].streamed
                                              ELSE None])
    /\ WorkerStep

PullCheck == PullChecked(FALSE)

UiOnFinished ==
    /\ window = "open"
    /\ signals # <<>>
    /\ \E f \in Faults :
        \E r \in {on_finished(Pack, f, Head(signals).success)} :
            /\ CommitUI(r.s)
            /\ ui' = Handled("on_finished", r, Head(signals), None)
            /\ workers' = [workers EXCEPT ![Head(signals).w] = NoWorker]
            /\ signals' = Tail(signals)
            /\ UNCHANGED <<window, threads>>

InitSetup ==
    /\ installed = TRUE
    /\ sdk \in BOOLEAN
    /\ daemonUp = FALSE
    /\ autostart = FALSE
    /\ cstate = NOT_FOUND
    /\ image = FALSE
    /\ client = None
    /\ last = Idle
    /\ streak = 0
    /\ stop_daemon_on_exit = FALSE
    /\ InitWindow

NextSetup ==
    \/ UiSetupClicked
    \/ ProgressCancel
    \/ PullStream
    \/ PullCheck
    \/ UiOnFinished
    \/ EnvDaemon
    \/ EnvContainerRemoved
    \/ EnvImage

SpecSetup == InitSetup /\ [][NextSetup]_vars

\* ------------------------------------------------ the image pull on its own
\* worker.start(): ImagePullWorker.run begins on a thread of its own.
WorkerStart ==
    /\ \E i \in FreeSlots :
          workers' = [workers EXCEPT ![i] =
                        [pc |-> "run", streamed |-> None, dialog |-> FALSE,
                         reply |-> "Yes", finished |-> 0]]
    /\ UNCHANGED <<envVars, client, signals>>
    /\ WorkerStep

PullCheckObserved == PullChecked(TRUE)

\* The queued finished signal is delivered and the worker forgotten.
FinishedDelivered ==
    /\ signals # <<>>
    /\ workers' = [workers EXCEPT ![Head(signals).w] = NoWorker]
    /\ signals' = Tail(signals)
    /\ UNCHANGED <<envVars, client>>
    /\ WorkerStep

NextPull ==
    \/ WorkerStart
    \/ PullStream
    \/ PullCheckObserved
    \/ FinishedDelivered
    \/ EnvDaemon
    \/ EnvImage

SpecPull == InitSetup /\ [][NextPull]_vars

\* -------------------------------------------- the log relay, its threads run
Streamers == 1..MaxStreamers

\* The thread MainWindow._log_streamer refers to; 0 when it is None.
Current ==
    IF \E i \in Streamers : threads[i].ref
    THEN CHOOSE i \in Streamers : threads[i].ref
    ELSE 0

\* wait(3000) on a thread that reads a stream: with the stream open the next
\* line may come in time (the thread then sees _stop_requested and ends) or not
\* (a paused container writes none); with the stream ended the thread ends.
CanTimeOut(th, cs) == th.pc = "stream" /\ th.open /\ cs \in {RUNNING, PAUSED}
CanFinish(th, cs) == ~(th.pc = "stream" /\ th.open /\ cs = PAUSED)

\* The thread after stop() and wait(3000), and the reference dropped.
AfterWait(th, cs, timeout) ==
    IF th.pc = "stream" /\ ~timeout
    THEN IF th.open /\ cs = RUNNING
         THEN run_line([th EXCEPT !.ref = FALSE, !.stop_requested = TRUE])
         ELSE run_finally([th EXCEPT !.ref = FALSE, !.stop_requested = TRUE],
                          "exhausted")
    ELSE [th EXCEPT !.ref = FALSE, !.stop_requested = TRUE]

Waited(calls) == Current # 0 /\ HasCall(calls, "LogStreamer.wait")

WaitState(calls) == calls[FirstCall(calls, "LogStreamer.wait")].cs

AfterStop(calls, timeout) ==
    IF Waited(calls)
    THEN [threads EXCEPT ![Current] = AfterWait(@, WaitState(calls), timeout)]
    ELSE threads

\* A slot of the table is free when no thread was put there or the thread
\* there has ended and is no longer referred to.
FreeThreads(T) ==
    {i \in Streamers : T[i].pc = "none" \/ (T[i].pc = "done" /\ ~T[i].ref)}

AfterStart(T, calls) ==
    IF HasCall(calls, "LogStreamer.start")
    THEN [T EXCEPT ![CHOOSE i \in FreeThreads(T) :
                        \A j \in FreeThreads(T) : i <= j] = NewThread]
    ELSE T

StreamsAfter(T, s) ==
    [i \in Streamers |-> [T[i] EXCEPT !.open = @ /\ StreamOpen(s.daemonUp, s.cstate)]]

\* A handler run while LogStreamer threads exist.  The handler runs once the
\* thread it refers to has entered run().
LogHandled(r, timeout, polled) ==
    /\ Current # 0 => threads[Current].pc # "start"
    /\ timeout => Waited(r.s.calls) /\ CanTimeOut(threads[Current], WaitState(r.s.calls))
    /\ (~timeout /\ Waited(r.s.calls)) =>
            CanFinish(threads[Current], WaitState(r.s.calls))
    /\ HasCall(r.s.calls, "LogStreamer.start") =>
            FreeThreads(AfterStop(r.s.calls, timeout)) # {}
    /\ CommitWindow(r.s)
    /\ poller' = IF polled THEN poll_tick(poller, r.v)
                 ELSE poller_after(poller, status_poller # None /\ r.s.status_poller = None)
    /\ threads' = AfterStart(StreamsAfter(AfterStop(r.s.calls, timeout), r.s),
                             r.s.calls)
    /\ ui' = UiIdle
    /\ UNCHANGED <<workers, signals>>

LogFaults == {NoFault, [NoFault EXCEPT !.mut = TRUE]}
HelperOk == [rc |-> "ok", ready |-> TRUE]

LogStartClicked ==
    /\ Ready
    /\ buttons.start
    /\ \E f \in LogFaults, timeout \in BOOLEAN :
        /\ LogHandled(_on_start_clicked(Pack, f, HelperOk), timeout, FALSE)
        /\ UNCHANGED window

LogStopClicked ==
    /\ Ready
    /\ buttons.stop
    /\ \E f \in LogFaults, timeout \in BOOLEAN :
        /\ LogHandled(_on_stop_clicked(Pack, f), timeout, FALSE)
        /\ UNCHANGED window

LogCloseEvent ==
    /\ Ready
    /\ \E reply \in Replies, f \in LogFaults, timeout \in BOOLEAN :
        \E r \in {closeEvent(Pack, reply, f, HelperOk)} :
            /\ LogHandled(r, timeout, FALSE)
            /\ window' = IF r.exc \/ r.v THEN "closed" ELSE "open"

LogStatusPolled ==
    /\ Ready
    /\ status_poller # None
    /\ poller.pc = "run"
    /\ LogHandled(StatusPoller_run(Pack, NoFault), FALSE, TRUE)
    /\ UNCHANGED window

ThreadStep ==
    /\ ui' = UiIdle
    /\ UNCHANGED <<last, streak, cfgVars, stepVars, window, buttons, log_streamer,
                   pollVars, workers, signals>>

\* LogStreamer.run from its start to the first wait for a line.
LogRun ==
    /\ \E t \in Streamers, f \in LogFaults :
        /\ threads[t].pc = "start"
        /\ \E state \in {get_container_state(Pack, f)} :
            \E opened \in {IF ~state.exc /\ state.v = RUNNING
                           THEN stream_logs(state.s, f) ELSE Res(state.s, FALSE)} :
                /\ Commit(opened.s)
                /\ threads' = [threads EXCEPT ![t] =
                      run_start([@ EXCEPT !.running_at_start =
                                    daemonUp /\ cstate = RUNNING], state, opened)]
    /\ ThreadStep

\* A line arrives on the stream a thread reads.
LogLine ==
    /\ \E t \in Streamers :
        /\ threads[t].pc = "stream" /\ threads[t].open /\ cstate = RUNNING
        /\ threads' = [threads EXCEPT ![t] = run_line(@)]
    /\ UNCHANGED <<envVars, client>>
    /\ ThreadStep

\* The stream a thread reads has ended: the loop ends.
LogEnd ==
    /\ \E t \in Streamers :
        /\ threads[t].pc = "stream" /\ ~threads[t].open
        /\ threads' = [threads EXCEPT ![t] = run_finally(@,
                          IF @.stop_requested THEN "cancelled" ELSE "exhausted")]
    /\ UNCHANGED <<envVars, client>>
    /\ ThreadStep

InitLog ==
    /\ installed = TRUE
    /\ sdk = TRUE
    /\ daemonUp = TRUE
    /\ autostart = FALSE
    /\ cstate \in {EXITED, RUNNING}
    /\ image = TRUE
    /\ client = None
    /\ last = Idle
    /\ streak = 0
    /\ stop_daemon_on_exit = FALSE
    /\ InitWindow

NextLog ==
    \/ LogStartClicked
    \/ LogStopClicked
    \/ LogCloseEvent
    \/ LogStatusPolled
    \/ LogRun
    \/ LogLine
    \/ LogEnd
    \/ EnvContainer

SpecLog == InitLog /\ [][NextLog]_vars

\* ------------------------- one log relay, its statements interleaved
\* with stop()
LineTexts == {"a", "b"}

RelayStep(r) ==
    /\ relay' = r
    /\ UNCHANGED <<envVars, adapterVars, cfgVars, polling, panel, timer, window,
                   buttons, log_streamer, pollVars, threads, workers, signals, ui>>

\* The engine writes a line and stream_logs() yields it.
RelayNext ==
    /\ relay.pc = "next"
    /\ Len(relay.produced) < MaxLines
    /\ \E line \in LineTexts : RelayStep(loop_next(relay, line))

\* The stream ends (the container stopped) or breaks with an exception.
RelayEnd ==
    /\ relay.pc = "next"
    /\ \E error \in BOOLEAN : RelayStep(loop_exit(relay, error))

RelayCheck ==
    /\ relay.pc = "check"
    /\ RelayStep(loop_check(relay))

RelayEmit ==
    /\ relay.pc = "emit"
    /\ RelayStep(loop_emit(relay))

\* stop() called from the window's thread, wherever the loop is.
RelayStop ==
    /\ ~relay.stop_requested
    /\ RelayStep(LogStreamer_stop(relay))

InitRelay ==
    /\ installed = TRUE
    /\ sdk = TRUE
    /\ daemonUp = TRUE
    /\ autostart = FALSE
    /\ cstate = RUNNING
    /\ image = TRUE
    /\ client = Conn
    /\ last = Idle
    /\ streak = 0
    /\ stop_daemon_on_exit = FALSE
    /\ InitWindow

NextRelay ==
    \/ RelayNext
    \/ RelayEnd
    \/ RelayCheck
    \/ RelayEmit
    \/ RelayStop

SpecRelay == InitRelay /\ [][NextRelay]_vars

\* ----------------- the status poller, its statements interleaved with
\* stop() and with the window's thread
PollQuiet ==
    UNCHANGED <<last, streak, cfgVars, relay, panel, timer, window, log_streamer,
                pollVars, threads, workers, signals, ui>>

\* A statement of run() that touches the poller only.
PollStep(p) ==
    /\ polling' = p
    /\ UNCHANGED <<envVars, client, buttons>>
    /\ PollQuiet

PollCheck ==
    /\ polling.pc = "top"
    /\ PollStep(poll_check(polling))

PollCall ==
    /\ polling.pc = "call"
    /\ polling.produced < MaxSnapshots
    /\ PollStep(poll_call(polling))

PollReturn ==
    /\ polling.pc = "query"
    /\ \E f \in ConnFaults :
        \E r \in {get_full_status(Pack, f, FALSE)} :
            /\ Commit(r.s)
            /\ polling' = poll_return(polling, r)
            /\ UNCHANGED buttons
            /\ PollQuiet

PollEmit ==
    /\ polling.pc = "emit"
    /\ PollStep(poll_emit(polling))

PollSlice ==
    /\ polling.pc = "slice"
    /\ PollStep(poll_slice(polling))

PollSleep ==
    /\ polling.pc = "sleep"
    /\ PollStep(poll_sleep(polling))

\* stop() called from the window's thread, wherever run() is.
PollStop ==
    /\ ~polling.stop_requested
    /\ PollStep(StatusPoller_stop(polling))

\* The slot _on_status_updated, run for the oldest queued snapshot.
PollDeliver ==
    /\ polling.queue # <<>>
    /\ polling' = poll_deliver(polling)
    /\ buttons' = _on_status_updated(Pack, Head(polling.queue).status).buttons
    /\ UNCHANGED <<envVars, client>>
    /\ PollQuiet

\* _on_setup_complete: _update_status() on the window's thread.
PollManualUpdate ==
    /\ polling.produced < MaxSnapshots
    /\ \E f \in ConnFaults :
        \E r \in {_update_status(Pack, f)} :
            /\ Commit(r.s)
            /\ buttons' = r.s.buttons
            /\ polling' = IF r.exc THEN polling ELSE poll_manual(polling)
            /\ PollQuiet

\* The daemon is stopped or started outside the application.
PollEnvDaemon ==
    /\ daemonUp' = ~daemonUp
    /\ cstate' = IF daemonUp THEN StopEffect(cstate) ELSE cstate
    /\ UNCHANGED <<installed, autostart, image, sdk, client, buttons, polling>>
    /\ PollQuiet

NextPoll ==
    \/ PollCheck
    \/ PollCall
    \/ PollReturn
    \/ PollEmit
    \/ PollSlice
    \/ PollSleep
    \/ PollStop
    \/ PollDeliver
    \/ PollManualUpdate
    \/ PollEnvDaemon

SpecPoll == InitRelay /\ [][NextPoll]_vars

\* ------------------------------------------- the media folders, configured
\* The folders the user picks in the directory dialog.
Parents == {"/a", "/b", "/c"}
Names == {"Movies", "Movies_2"}
AllPaths == {Path(d, n) : d \in Parents, n \in Names}

\* Path(p) of a string of the file.
PathOf(str) == CHOOSE p \in AllPaths : Str(p) = str

\* load(): AppConfig(**data) with __post_init__, or the default AppConfig.
load(s) ==
    IF ~s.persisted.exists THEN [s EXCEPT !.media_paths = <<>>]
    ELSE [s EXCEPT !.media_paths =
            [i \in 1..Len(s.persisted.media_paths) |->
                PathOf(s.persisted.media_paths[i])]]

ConfigDone(op, r) ==
    /\ media_paths' = r.s.media_paths
    /\ persisted' = r.s.persisted
    /\ UNCHANGED stepVars
    /\ last' = [op |-> op, exc |-> r.exc, ok |-> ~r.exc, msg |-> None,
                status |-> NoStatus, calls |-> r.s.calls, pre |-> World]
    /\ streak' = 0
    /\ ui' = UiIdle
    /\ UNCHANGED <<envVars, client, stop_daemon_on_exit, window, buttons,
                   log_streamer, pollVars, threads, workers, signals>>

\* _on_add_media, the call of add_media_path.
AddMediaPath ==
    \E path \in AllPaths :
        /\ InSeq(path, media_paths) \/ Len(media_paths) < MaxPaths
        /\ ConfigDone("add_media_path",
                      add_media_path(Call(Pack, "add_media_path", path), path))

\* _on_remove_media, the call of remove_media_path.
RemoveMediaPath ==
    \E path \in AllPaths :
        ConfigDone("remove_media_path",
                   remove_media_path(Call(Pack, "remove_media_path", path), path))

\* The application is started again: the configuration is read from the file.
LoadConfig ==
    ConfigDone("load", Res(load(Call(Pack, "load", "-")), None))

InitConfig ==
    /\ installed = TRUE
    /\ sdk = TRUE
    /\ daemonUp = TRUE
    /\ autostart = FALSE
    /\ cstate = NOT_FOUND
    /\ image = TRUE
    /\ client = None
    /\ last = Idle
    /\ streak = 0
    /\ stop_daemon_on_exit = FALSE
    /\ InitWindow

NextConfig ==
    \/ AddMediaPath
    \/ RemoveMediaPath
    \/ LoadConfig
    \/ DoCreateContainer
    \/ EnvContainerRemoved

SpecConfig == InitConfig /\ [][NextConfig]_vars

\* ------------------- the panel's configuration handlers, save interleaved
\* with the end of the process
Folders == {Path(d, "Movies") : d \in {"/a", "/b"}}

PanelStep(p) ==
    /\ panel' = p
    /\ UNCHANGED <<envVars, adapterVars, cfgVars, relay, polling, timer, window,
                   buttons, log_streamer, pollVars, threads, workers, signals, ui>>

PanelAddMedia ==
    /\ panel.pc = "idle"
    /\ Len(panel.media_list) < MaxPaths
    /\ \E path \in Folders : PanelStep(_on_add_media(panel, path))

PanelRemoveMedia ==
    /\ panel.pc = "idle"
    /\ \E current \in 1..Len(panel.media_list) :
        PanelStep(_on_remove_media(panel, current,
                                     PathOf(panel.media_list[current])))

PanelStopDaemonChanged ==
    /\ panel.pc = "idle"
    /\ PanelStep(_on_stop_daemon_changed(panel,
                                           ~panel.config.stop_daemon_on_exit))

PanelHwAccelChanged ==
    /\ panel.pc = "idle"
    /\ PanelStep(_on_hw_accel_changed(panel, ~panel.config.enable_hw_accel))

PanelSaveOpen ==
    /\ panel.pc = "open"
    /\ PanelStep(save_open(panel))

PanelSaveDump ==
    /\ panel.pc = "dump"
    /\ PanelStep(save_dump(panel))

PanelCrash ==
    /\ panel.pc \in {"open", "dump"}
    /\ PanelStep(crashed(panel))

PanelRestart ==
    /\ panel.pc = "crashed"
    /\ PanelStep(restarted(panel,
           IF panel.file.content = "json"
           THEN [i \in 1..Len(panel.file.data.media_paths) |->
                    PathOf(panel.file.data.media_paths[i])]
           ELSE <<>>))

NextPanel ==
    \/ PanelAddMedia
    \/ PanelRemoveMedia
    \/ PanelStopDaemonChanged
    \/ PanelHwAccelChanged
    \/ PanelSaveOpen
    \/ PanelSaveDump
    \/ PanelCrash
    \/ PanelRestart

SpecPanel == InitConfig /\ [][NextPanel]_vars

\* ------------------------------- a status poller of any interval, run
TimerStep(tm) ==
    /\ timer' = tm
    /\ UNCHANGED <<envVars, adapterVars, cfgVars, relay, polling, panel, window,
                   buttons, log_streamer, pollVars, threads, workers, signals, ui>>

TimerNew ==
    /\ timer.pc = "tick"
    /\ \E interval_ms \in 1..MaxIntervalMs : TimerStep(NewTimer(interval_ms))

TimerTick ==
    /\ timer.pc = "tick"
    /\ TimerStep(timer_tick(timer))

TimerSlice ==
    /\ timer.pc = "slice"
    /\ TimerStep(timer_slice(timer))

TimerSleep ==
    /\ timer.pc = "sleep"
    /\ TimerStep(timer_sleep(timer))

NextTimer ==
    \/ TimerNew
    \/ TimerTick
    \/ TimerSlice
    \/ TimerSleep

SpecTimer == InitRelay /\ [][NextTimer]_vars

\* ------------------------------------------------------------ properties
EngineQueries == {"get_container_state", "is_image_pulled", "containers.get", "images.get"}
EngineMutations == {"container.start", "container.stop", "containers.create",
                    "container.remove"}

FullStatusReturned == last.op = "get_full_status" /\ ~last.exc

\* C1: a snapshot whose daemon state is not Running has container_state NotFound
\* and image_pulled false, and the call that produced it made neither the
\* container-state query nor the image-presence query.
C1_ShortCircuit ==
    (FullStatusReturned /\ last.status.daemon_state # DAEMON_RUNNING) =>
        /\ last.status.container_state = NOT_FOUND
        /\ last.status.image_pulled = FALSE
        /\ \A q \in EngineQueries : ~HasCall(last.calls, q)

\* C1 witness: a NotInstalled snapshot taken while the daemon was up, the
\* container running and the image present (the queries would have said so).
C1_Witness ==
    /\ FullStatusReturned
    /\ last.status.daemon_state = DAEMON_NOT_INSTALLED
    /\ last.pre.daemonUp /\ last.pre.cstate = RUNNING /\ last.pre.image
    /\ last.pre.client = Conn

\* The three-branch derivation, from the answers the queries gave.
RefStatus(calls) ==
    IF Answer(calls, "is_docker_installed") = "false"
    THEN [daemon_state |-> DAEMON_NOT_INSTALLED, daemon_autostart |-> FALSE,
          container_state |-> NOT_FOUND, image_pulled |-> FALSE,
          error_message |-> "Docker is not installed"]
    ELSE IF Answer(calls, "is_daemon_running") = "false"
    THEN [daemon_state |-> DAEMON_STOPPED,
          daemon_autostart |-> (Answer(calls, "is_daemon_autostart_enabled") = "true"),
          container_state |-> NOT_FOUND, image_pulled |-> FALSE, error_message |-> None]
    ELSE [daemon_state |-> DAEMON_RUNNING,
          daemon_autostart |-> (Answer(calls, "is_daemon_autostart_enabled") = "true"),
          container_state |-> Answer(calls, "get_container_state"),
          image_pulled |-> (Answer(calls, "is_image_pulled") = "true"),
          error_message |-> None]

WithoutId(st) ==
    [daemon_state |-> st.daemon_state, daemon_autostart |-> st.daemon_autostart,
     container_state |-> st.container_state, image_pulled |-> st.image_pulled,
     error_message |-> st.error_message]

\* C2: every snapshot get_full_status returns is the three-branch derivation of
\* the answers its queries gave; with the engine not installed it makes no
\* daemon probe and no autostart query; with the daemon stopped and with it
\* running the autostart is the one queried in that call.
C2_ThreeBranch ==
    FullStatusReturned =>
        /\ WithoutId(last.status) = RefStatus(last.calls)
        /\ Answer(last.calls, "is_docker_installed") = B2S(last.pre.installed)
        /\ last.status.daemon_state = DAEMON_NOT_INSTALLED =>
              /\ ~HasCall(last.calls, "is_daemon_running")
              /\ ~HasCall(last.calls, "is_daemon_autostart_enabled")
        /\ last.status.daemon_state # DAEMON_NOT_INSTALLED =>
              /\ HasCall(last.calls, "is_daemon_running")
              /\ HasCall(last.calls, "is_daemon_autostart_enabled")
              /\ last.status.daemon_autostart = last.pre.autostart
        /\ last.status.daemon_state = DAEMON_RUNNING =>
              /\ HasCall(last.calls, "get_container_state")
              /\ HasCall(last.calls, "is_image_pulled")

\* C2 witness: the third branch, with every query answering positively.
C2_Witness ==
    /\ FullStatusReturned
    /\ last.status = DockerStatus(DAEMON_RUNNING, TRUE, RUNNING, ShortId, TRUE, None)

\* C3: every LogStreamer thread that has left run() emitted stopped once.
C3_StoppedOnce ==
    \A i \in Streamers : threads[i].pc = "done" => threads[i].stopped = 1

\* C4: at most one LogStreamer thread has been started and has not ended.
C4_OneRelay ==
    Cardinality({i \in Streamers : threads[i].pc \in {"start", "stream"}}) <= 1

\* The stop prompt of closeEvent was shown (the container was found Running).
Prompted == ui.handler = "closeEvent" /\ HasCall(ui.calls, "QMessageBox.question")

\* C5: a closeEvent whose stop prompt is answered Cancel calls neither
\* stop_container nor stop_daemon, does not read stop_daemon_on_exit, ignores
\* the event and leaves the window open, the container and the daemon as
\* they were.
C5_CancelAborts ==
    (Prompted /\ ui.reply = "Cancel") =>
        /\ ~ui.exc /\ ~ui.ret
        /\ ~HasCall(ui.calls, "stop_container")
        /\ ~HasCall(ui.calls, "config.stop_daemon_on_exit")
        /\ ~HasCall(ui.calls, "stop_daemon")
        /\ \A m \in EngineMutations \cup {"pkexec systemctl stop docker"} :
              ~HasCall(ui.calls, m)
        /\ HasCall(ui.calls, "event.ignore") /\ ~HasCall(ui.calls, "event.accept")
        /\ window = "open"
        /\ cstate = ui.pre.cstate /\ daemonUp = ui.pre.daemonUp

\* C5 witness: Cancel answered with the container running, the daemon up and
\* stop_daemon_on_exit set.
C5_Witness ==
    /\ Prompted /\ ui.reply = "Cancel"
    /\ ui.pre.cstate = RUNNING /\ stop_daemon_on_exit
    /\ HasCall(ui.calls, "event.ignore")

C7_DaemonStopAfterContainer ==
    ui.handler = "closeEvent" =>
        \A i \in 1..Len(ui.calls) :
            ui.calls[i].c = "stop_daemon" => ui.calls[i].cs # RUNNING

StartClicked == ui.handler = "_on_start_clicked"

\* C8: in _on_start_clicked, when is_daemon_running() answers false,
\* start_daemon is called, and before any start_container; when start_daemon
\* returns failure, start_container is not called and the failure message is
\* shown; start_container is called only when is_daemon_running() answered true
\* or start_daemon returned success.
C8_GuardedStart ==
    StartClicked =>
        /\ FirstAnswer(ui.calls, "is_daemon_running") = "false" =>
              /\ HasCall(ui.calls, "start_daemon")
              /\ HasCall(ui.calls, "start_container") =>
                    FirstCall(ui.calls, "start_daemon")
                        < FirstCall(ui.calls, "start_container")
        /\ Answer(ui.calls, "start_daemon.ok") = "false" =>
              /\ ~HasCall(ui.calls, "start_container")
              /\ \A m \in EngineMutations : ~HasCall(ui.calls, m)
              /\ Answer(ui.calls, "QMessageBox.critical")
                    = Answer(ui.calls, "start_daemon.msg")
              /\ ~ui.ret
        /\ HasCall(ui.calls, "start_container") =>
              \/ FirstAnswer(ui.calls, "is_daemon_running") = "true"
              \/ Answer(ui.calls, "start_daemon.ok") = "true"

\* C8 witness: the daemon was down, start_daemon failed and its message was
\* shown.
C8_Witness ==
    /\ StartClicked
    /\ ~ui.pre.daemonUp
    /\ Answer(ui.calls, "start_daemon.ok") = "false"
    /\ HasCall(ui.calls, "QMessageBox.critical")

\* C9: an ImagePullWorker runs only after the download was confirmed; its
\* finished signal carries success only when its presence check answered true;
\* _on_setup_clicked with the image absent calls no create_container itself, and
\* starts a worker exactly when the answer is Yes; on_finished calls
\* create_container only for a signal of success.
C9_GuardedSetup ==
    /\ \A i \in 1..MaxPulls : workers[i].pc # "none" => workers[i].reply = "Yes"
    /\ \A k \in 1..Len(signals) :
          /\ signals[k].reply = "Yes"
          /\ signals[k].success => signals[k].check = "true"
    /\ (ui.handler = "_on_setup_clicked"
            /\ FirstAnswer(ui.calls, "is_image_pulled") = "false") =>
          /\ ~HasCall(ui.calls, "create_container")
          /\ \A m \in EngineMutations : ~HasCall(ui.calls, m)
          /\ HasCall(ui.calls, "ImagePullWorker.start") <=> ui.reply = "Yes"
          /\ ui.ret <=> ui.reply = "Yes"
    /\ ui.handler = "on_finished" =>
          /\ HasCall(ui.calls, "create_container") =>
                /\ ui.sig.success
                /\ ui.sig.check = "true"
                /\ ui.sig.reply = "Yes"
          /\ ui.sig.check # "true" =>
                /\ ~HasCall(ui.calls, "create_container")
                /\ \A m \in EngineMutations : ~HasCall(ui.calls, m)

\* C9 witness: on_finished ran for a worker whose check found the image and
\* called create_container.
C9_Witness ==
    /\ ui.handler = "on_finished"
    /\ ui.sig.success
    /\ HasCall(ui.calls, "create_container")
    /\ cstate = CREATED

FoundRunning ==
    /\ last.op = "start_container" /\ ~last.exc
    /\ Answer(last.calls, "get_container_state") = RUNNING

\* C10: a start_container call that finds the container Running returns
\* (true, "Container is already running"), makes no engine mutation call and
\* leaves the container as it was, however many times it is repeated.
C10_StartIdempotent ==
    FoundRunning =>
        /\ last.ok /\ last.msg = "Container is already running"
        /\ \A m \in EngineMutations : ~HasCall(last.calls, m)
        /\ cstate = RUNNING /\ last.pre.cstate = RUNNING

\* C10 witness: the third call in succession that found the container running.
C10_Witness ==
    /\ FoundRunning
    /\ last.msg = "Container is already running"
    /\ streak >= 3

\* The adapter has no connection and cannot make one: get_container_state()
\* reports NotFound without asking the engine.
ConnectionUnavailable(w) == ~w.sdk \/ (w.client = None /\ ~w.daemonUp)

StopReturned == last.op = "stop_container" /\ ~last.exc

\* C11 as stated: a stop_container call made where get_container_state() reports
\* NotFound (the engine answers so, or there is no connection) returns
\* (true, "Container does not exist") and makes no container.stop call.
C11_StopAbsent ==
    (StopReturned /\ (\/ ConnectionUnavailable(last.pre)
                      \/ Answer(last.calls, "get_container_state") = NOT_FOUND)) =>
        /\ last.ok /\ last.msg = "Container does not exist"
        /\ ~HasCall(last.calls, "container.stop")

\* C11, amended: with a connection, a stop_container call whose state query
\* reports NotFound returns (true, "Container does not exist"), makes no engine
\* mutation call and leaves the container as it was; without a connection it
\* returns (false, "Docker client not available"), and asks the engine nothing.
C11_StopAbsentConnected ==
    /\ (StopReturned /\ Answer(last.calls, "get_container_state") = NOT_FOUND) =>
          /\ last.ok /\ last.msg = "Container does not exist"
          /\ \A m \in EngineMutations : ~HasCall(last.calls, m)
          /\ cstate = last.pre.cstate
    /\ (StopReturned /\ ConnectionUnavailable(last.pre)) =>
          /\ ~last.ok /\ last.msg = "Docker client not available"
          /\ \A m \in EngineMutations \cup EngineQueries : ~HasCall(last.calls, m)
          /\ cstate = last.pre.cstate

\* C11 witness: stop_container found no container, over a live connection.
C11_Witness ==
    /\ StopReturned
    /\ last.pre.daemonUp /\ last.pre.cstate = NOT_FOUND
    /\ Answer(last.calls, "get_container_state") = NOT_FOUND
    /\ last.msg = "Container does not exist"

HelperCalls == {"pkexec systemctl start docker", "pkexec systemctl stop docker"}

\* The daemon is up and the probe of this build can reach it (the SDK, or the
\* docker command line).
Reachable(w) == w.daemonUp /\ (w.sdk \/ w.installed)

\* C12: start_daemon with the daemon running, and stop_daemon with the daemon
\* stopped, return success, do not run the privileged helper, and leave the
\* daemon as it was and a cached connection in place.
C12_DaemonIdempotent ==
    /\ (last.op = "start_daemon" /\ Reachable(last.pre)) =>
          /\ last.ok
          /\ \A c \in HelperCalls : ~HasCall(last.calls, c)
          /\ daemonUp = last.pre.daemonUp
          /\ last.pre.client # None => client = last.pre.client
    /\ (last.op = "stop_daemon" /\ ~last.pre.daemonUp) =>
          /\ last.ok
          /\ \A c \in HelperCalls : ~HasCall(last.calls, c)
          /\ daemonUp = last.pre.daemonUp
          /\ last.pre.client # None => client = last.pre.client

CreateReturned == last.op = "create_container" /\ ~last.exc

\* C13: a create_container call whose state query finds a container (any state
\* other than NotFound) returns (false, "Container already exists. ..."), makes
\* no containers.create call nor any other engine mutation call, and leaves the
\* container as it was; and no create_container call made while a container
\* exists returns success or changes that container.
C13_NoRecreate ==
    /\ (CreateReturned
            /\ Answer(last.calls, "get_container_state") \notin {None, NOT_FOUND}) =>
          /\ ~last.ok
          /\ last.msg = "Container already exists. Remove it first to recreate."
          /\ \A m \in EngineMutations : ~HasCall(last.calls, m)
          /\ cstate = last.pre.cstate
    /\ (last.op = "create_container" /\ last.pre.cstate # NOT_FOUND) =>
          /\ ~last.ok
          /\ cstate = last.pre.cstate

\* C13 witness: create_container called on a container that exists but does not
\* run.
C13_Witness ==
    /\ CreateReturned
    /\ last.pre.cstate = EXITED
    /\ Answer(last.calls, "get_container_state") = EXITED
    /\ ~last.ok

RemoveReturned == last.op = "remove_container" /\ ~last.exc

\* C14: a remove_container call whose state query reports Running calls
\* stop_container before anything else at the engine; it makes the
\* container.remove call only after stop_container returned success; when
\* stop_container returns failure it returns (false, message), makes no
\* container.remove call and the container is still there; a call whose state
\* query reports NotFound returns (true, "Container does not exist") and makes
\* no engine mutation call.
C14_StopThenRemove ==
    /\ (RemoveReturned /\ FirstAnswer(last.calls, "get_container_state") = RUNNING) =>
          /\ HasCall(last.calls, "stop_container")
          /\ \A m \in EngineMutations :
                HasCall(last.calls, m) =>
                    FirstCall(last.calls, "stop_container") < FirstCall(last.calls, m)
          /\ HasCall(last.calls, "container.remove") =>
                /\ Answer(last.calls, "stop_container.ok") = "true"
                /\ FirstCall(last.calls, "stop_container.ok")
                      < FirstCall(last.calls, "container.remove")
          /\ Answer(last.calls, "stop_container.ok") = "false" =>
                /\ ~last.ok
                /\ last.msg = "Failed to stop container before removal"
                /\ ~HasCall(last.calls, "container.remove")
                /\ cstate # NOT_FOUND
    /\ (RemoveReturned /\ FirstAnswer(last.calls, "get_container_state") = NOT_FOUND) =>
          /\ last.ok /\ last.msg = "Container does not exist"
          /\ \A m \in EngineMutations : ~HasCall(last.calls, m)
          /\ ~HasCall(last.calls, "stop_container")

\* C14 witness: the stop inside remove_container failed and the running
\* container was kept.
C14_Witness ==
    /\ RemoveReturned
    /\ FirstAnswer(last.calls, "get_container_state") = RUNNING
    /\ Answer(last.calls, "stop_container.ok") = "false"
    /\ cstate = RUNNING
    /\ ~last.ok

\* C17: is_daemon_running() answers true exactly when the daemon is up and can
\* be reached at the time of the call.
C17_ProbeIsLive ==
    last.op = "is_daemon_running" => (last.ok <=> Reachable(last.pre))

\* The mount targets of the last containers.create call.
Targets == Answer(last.calls, "containers.create")

\* C15: the mount targets create_container hands to the engine for a list of
\* pairwise distinct media folders are pairwise distinct.
C15_DistinctTargets ==
    (last.op = "create_container" /\ HasCall(last.calls, "containers.create")
        /\ NoDuplicate(last.pre.media_paths)) =>
        NoDuplicate(Targets)

\* The path given to the last add_media_path or remove_media_path call.
Argument == last.calls[1].a

\* C16: the media-path list never holds a path twice, what a save wrote is the
\* list with each path once, and add_media_path with a path already in the list
\* changes neither the list nor the file (it makes no save).
C16_IdempotentAdd ==
    /\ NoDuplicate(media_paths)
    /\ NoDuplicate(persisted.media_paths)
    /\ (last.op \in {"add_media_path", "remove_media_path"}
            /\ HasCall(last.calls, "config.save")) =>
          /\ persisted.exists
          /\ persisted.media_paths = _serialize_config(media_paths)
    /\ (last.op = "add_media_path" /\ InSeq(Argument, last.pre.media_paths)) =>
          /\ media_paths = last.pre.media_paths
          /\ persisted = last.pre.persisted
          /\ ~HasCall(last.calls, "config.save")
    /\ (last.op = "add_media_path" /\ ~InSeq(Argument, last.pre.media_paths)) =>
          media_paths = Append(last.pre.media_paths, Argument)

\* C16 witness: a path that is in a list of two is added again.
C16_Witness ==
    /\ last.op = "add_media_path"
    /\ InSeq(Argument, last.pre.media_paths)
    /\ Len(media_paths) = 2
    /\ persisted.media_paths = _serialize_config(media_paths)

\* A finished signal agrees with the presence query its run made after the
\* stream: success is the query's answer, and false when the run made no query
\* or the query raised.
AgreesWithCheck(sig) ==
    /\ sig.check # None => (sig.success <=> sig.check = "true")
    /\ sig.check = None => ~sig.success

\* C18: the argument of every finished signal of an ImagePullWorker is the
\* answer of the is_image_pulled() call its run made after the pull stream
\* ended, whatever the stream said; a run that has ended emitted finished once,
\* one that has not emitted none.
C18_PullResult ==
    /\ \A k \in 1..Len(signals) : AgreesWithCheck(signals[k])
    /\ \A i \in 1..MaxPulls :
          /\ workers[i].pc \in {"run", "check"} => workers[i].finished = 0
          /\ workers[i].pc = "done" => workers[i].finished = 1
          /\ Cardinality({k \in 1..Len(signals) : signals[k].w = i})
                = workers[i].finished

\* C18 witness: one run whose stream ended with the success marker while the
\* image was absent finished with false, and one whose stream ended with an
\* error while the image was present finished with true.
C18_Witness ==
    /\ \E k \in 1..Len(signals) :
          /\ signals[k].streamed = "Image pulled successfully!"
          /\ signals[k].check = "false" /\ ~signals[k].success
    /\ \E k \in 1..Len(signals) :
          /\ signals[k].streamed = "Error pulling image"
          /\ signals[k].check = "true" /\ signals[k].success

Polled == ui.handler = "_on_status_updated"

\* C19: a tick of the StatusPoller whose get_full_status() raises emits no
\* snapshot (no slot runs, the buttons stay as they were) and leaves the thread
\* in its loop: the thread ends only once its stop was requested.
C19_PollSurvives ==
    /\ poller.pc = "done" => poller.stop_requested
    /\ (Polled /\ poller.tick = "failed") =>
          /\ ~ui.ret
          /\ ~HasCall(ui.calls, "emit status_updated")
          /\ ~HasCall(ui.calls, "_on_status_updated")
          /\ poller.pc = "run"
    /\ (Polled /\ poller.tick = "emitted") =>
          /\ ui.ret
          /\ HasCall(ui.calls, "emit status_updated")
    /\ (poller.prev = "failed" /\ poller.tick # None) => poller.pc = "run" \/ poller.stop_requested

\* C19 witness: the tick after a tick that failed emitted its snapshot.
C19_Witness ==
    /\ Polled
    /\ poller.prev = "failed" /\ poller.tick = "emitted"
    /\ HasCall(ui.calls, "get_full_status") \/ HasCall(ui.calls, "is_docker_installed")
    /\ HasCall(ui.calls, "emit status_updated")

\* A thread whose stop was requested while it waited for the next line.
StopPending(th) == th.pc = "stream" /\ th.stop_requested

\* C20: a LogStreamer thread whose stop was requested while it waited for a
\* line has taken no line since; a thread that took a line after the request
\* took one only, emitted no log_line for it, has ended and emitted stopped
\* once.
C20_CancelWithinOneLine ==
    \A i \in Streamers :
        /\ StopPending(threads[i]) => threads[i].after = 0
        /\ threads[i].after <= 1
        /\ threads[i].relayed = 0
        /\ threads[i].after = 1 =>
              /\ threads[i].pc = "done"
              /\ threads[i].path = "cancelled"
              /\ threads[i].stopped = 1

\* C20 witness: stop() and a wait(3000) that timed out left a thread waiting on
\* its stream while the next thread was started; then a line arrived and the
\* first thread ended.
C20_Witness ==
    /\ ui = UiIdle
    /\ \E i, j \in Streamers :
        /\ i # j
        /\ threads[i].after = 1 /\ threads[i].pc = "done" /\ ~threads[i].ref
        /\ threads[i].path = "cancelled" /\ threads[i].stopped = 1
        /\ threads[j].pc = "stream" /\ threads[j].ref

StateQueried == last.op = "get_container_state"

\* C22: get_container_state() never raises; for an absent container and for
\* every engine failure (a connection that cannot be made, or one cached while
\* the daemon was up and broken now) it returns NotFound.
C22_StateNeverRaises ==
    StateQueried =>
        /\ ~last.exc
        /\ (last.pre.cstate = NOT_FOUND \/ ~last.pre.daemonUp \/ ~last.pre.sdk) =>
              last.msg = NOT_FOUND

SnapshotId == last.status.container_id

\* C23: in every snapshot get_full_status() returns, container_id is populated
\* only with container_state other than NotFound.
C23_IdOnlyWhenFound ==
    FullStatusReturned =>
        /\ SnapshotId # None => last.status.container_state # NOT_FOUND
        /\ SnapshotId # None => last.status.daemon_state = DAEMON_RUNNING
        /\ SnapshotId \in {None, ShortId}

\* C23 witness: a snapshot of a running container, with its id.
C23_Witness ==
    /\ FullStatusReturned
    /\ SnapshotId = ShortId
    /\ last.status.container_state = RUNNING
    /\ last.pre.cstate = RUNNING

\* The calls that reach the engine: over the connection, or the docker
\* command line.
EngineCalls ==
    {"docker.from_env", "ping", "docker info", "containers.get", "images.get",
     "containers.create", "container.start", "container.stop", "container.remove",
     "container.logs", "container.logs(stream)", "api.pull"}

\* The calls of the last handler made on the thread of the window: all of them,
\* except for a status poll, where they start with the slot of status_updated.
UiThreadCalls ==
    IF ui.handler # "_on_status_updated" THEN ui.calls
    ELSE IF ~HasCall(ui.calls, "emit status_updated") THEN <<>>
    ELSE SubSeq(ui.calls, FirstCall(ui.calls, "emit status_updated") + 1,
                Len(ui.calls))

\* C26: no engine call is made on the thread of the window (the button
\* handlers, closeEvent, the slots): every engine call is made by a background
\* thread.
C26_EngineOffUiThread ==
    \A i \in 1..Len(UiThreadCalls) : UiThreadCalls[i].c \notin EngineCalls

\* The least index after k of a call of the name; 0 when there is none.
FirstAfter(calls, name, k) ==
    IF \E i \in (k + 1)..Len(calls) : calls[i].c = name
    THEN CHOOSE i \in (k + 1)..Len(calls) :
            /\ calls[i].c = name
            /\ \A j \in (k + 1)..Len(calls) : calls[j].c = name => i <= j
    ELSE 0

\* Where closeEvent reads stop_daemon_on_exit, asks for the container's state
\* at the daemon step, and calls stop_daemon (0: it does not).
PreferenceRead == FirstCall(ui.calls, "config.stop_daemon_on_exit")
DaemonStepQuery == FirstAfter(ui.calls, "get_container_state", PreferenceRead)
DaemonStopped == FirstCall(ui.calls, "stop_daemon")

DaemonStepRunning ==
    /\ ui.handler = "closeEvent"
    /\ HasCall(ui.calls, "stop_daemon")
    /\ DaemonStepQuery # 0
    /\ ui.calls[DaemonStepQuery].a = RUNNING

\* C27: in closeEvent, when stop_daemon is called and the state query of the
\* daemon step answered Running, stop_container is called between that query
\* and stop_daemon, and no call of the helper that stops the daemon comes
\* before it.
C27_ContainerStopFirst ==
    DaemonStepRunning =>
        /\ DaemonStepQuery < DaemonStopped
        /\ FirstAfter(ui.calls, "stop_container", DaemonStepQuery) \in
              (DaemonStepQuery + 1)..(DaemonStopped - 1)
        /\ HasCall(ui.calls, "pkexec systemctl stop docker") =>
              FirstCall(ui.calls, "stop_container")
                  < FirstCall(ui.calls, "pkexec systemctl stop docker")

\* C27 witness: the prompt answered No, the container found Running at the
\* daemon step and stopped there, then the daemon stopped.
C27_Witness ==
    /\ DaemonStepRunning
    /\ ui.reply = "No"
    /\ HasCall(ui.calls, "container.stop")
    /\ ui.calls[DaemonStopped].cs = EXITED
    /\ HasCall(ui.calls, "pkexec systemctl stop docker")

Connected == last.op \in {"client", "refresh_client"}

\* The call tried to make a connection, and that failed.
ConnectFailed ==
    /\ Connected
    /\ HasCall(last.calls, "docker.from_env")
    /\ \/ Answer(last.calls, "docker.from_env") # "-"
       \/ Answer(last.calls, "ping") # "-"

\* C28: an access to the client that fails to make the connection (creating
\* the client fails, or its ping) does not raise, reports the connection as
\* unavailable and leaves none cached; a connection made by the access is
\* cached only with its ping succeeded.
C28_FailedConnectCleared ==
    /\ ConnectFailed => (~last.exc /\ ~last.ok /\ client = None)
    /\ (Connected /\ HasCall(last.calls, "docker.from_env") /\ client # None) =>
          Answer(last.calls, "ping") = "-"

ContainerOps ==
    {"create_container", "start_container", "stop_container", "remove_container"}

StartOnAbsent ==
    /\ last.op = "start_container" /\ ~last.exc
    /\ Answer(last.calls, "get_container_state") = NOT_FOUND

\* C29: start_container() with the container reported NotFound returns
\* (false, "Container does not exist. Run setup first.") and makes no engine
\* mutation call; create, start, stop and remove return (false, message) for
\* every APIError of an engine call in their try block and do not raise it, and
\* the cached connection and the configuration stay as they were.
C29_FailuresReturned ==
    /\ StartOnAbsent =>
          /\ ~last.ok
          /\ last.msg = "Container does not exist. Run setup first."
          /\ \A m \in EngineMutations : ~HasCall(last.calls, m)
          /\ cstate = last.pre.cstate
    /\ (last.op \in ContainerOps /\ HasCall(last.calls, "APIError")) =>
          /\ ~last.exc
          /\ ~last.ok
          /\ last.msg \in {"Failed to create container", "Failed to start container",
                           "Failed to stop container", "Failed to remove container",
                           "Failed to stop container before removal"}
          /\ client = Conn
          /\ last.pre.client # None => client = last.pre.client
          /\ media_paths = last.pre.media_paths
          /\ persisted = last.pre.persisted

\* C29 witness: container.start() refused by the engine for a paused container.
C29_Witness ==
    /\ last.op = "start_container"
    /\ last.pre.cstate = PAUSED /\ last.pre.daemonUp
    /\ Answer(last.calls, "APIError") = "container.start"
    /\ last.msg = "Failed to start container"
    /\ cstate = PAUSED

IsPrefix(p, q) == Len(p) <= Len(q) /\ p = SubSeq(q, 1, Len(p))

\* C25: the lines a LogStreamer run emitted as log_line are a prefix of the
\* lines stream_logs() yielded to it (same order, none twice, none left out);
\* only the line in hand, or the one dropped when the run was stopped, is
\* missing at the end.
C25_RelayedPrefix ==
    /\ IsPrefix(relay.emitted, relay.produced)
    /\ Len(relay.produced) - Len(relay.emitted) <= 1
    /\ relay.pc = "next" => relay.emitted = relay.produced
    /\ relay.pc \in {"check", "emit"} =>
          /\ Len(relay.produced) = Len(relay.emitted) + 1
          /\ relay.line = relay.produced[Len(relay.produced)]

\* C25 witness: two different lines relayed in their order, a third one
\* received and dropped on the stop request.
C25_Witness ==
    /\ relay.pc = "done"
    /\ relay.emitted = <<"a", "b">>
    /\ Len(relay.produced) = 3
    /\ relay.stop_requested

\* C30: a LogStreamer run emits at most one log_line after stop() returned,
\* and that one only when stop() was called between the test of
\* _stop_requested and the emit; a run stopped by the flag emitted stopped
\* once.
C30_OneLineAfterStop ==
    /\ relay.after <= 1
    /\ relay.after = 1 => relay.at_stop = "emit"
    /\ relay.at_stop \in {"next", "check"} => relay.after = 0
    /\ (relay.pc = "done" /\ relay.stop_requested) => relay.stopped = 1
    /\ (relay.stop_requested /\ relay.pc = "emit") => relay.at_stop = "emit"

\* C30 witness: stop() came after the test; that line was emitted, the next
\* one received and dropped.
C30_Witness ==
    /\ relay.after = 1
    /\ relay.at_stop = "emit"
    /\ relay.pc = "done" /\ ~relay.error
    /\ Len(relay.produced) = Len(relay.emitted) + 1

\* C21 as stated: after stop() the StatusPoller enters no get_full_status(),
\* emits at most one snapshot and sleeps at most one slice.
C21_NoQueryAfterStop ==
    /\ polling.queries_after = 0
    /\ polling.emits_after <= 1
    /\ polling.sleeps_after <= 1

\* C21, amended: after stop() the StatusPoller enters get_full_status() at most
\* once, and only when stop() was called between the test at the head of the
\* loop and the call; it emits at most one snapshot, sleeps at most one slice,
\* and not both a query entered and a slice slept.
C21_StopWithinSlice ==
    /\ polling.queries_after <= 1
    /\ polling.queries_after = 1 => polling.at_stop = "call"
    /\ polling.emits_after <= 1
    /\ polling.emits_after = 1 => polling.at_stop \in {"call", "query", "emit"}
    /\ polling.sleeps_after <= 1
    /\ polling.sleeps_after = 1 => polling.at_stop = "sleep"
    /\ polling.queries_after + polling.sleeps_after <= 1
    /\ (polling.stop_requested /\ polling.at_stop \notin {"call", "query", "emit"}) =>
          polling.pc \notin {"call", "query", "emit"}

\* C21 witness: stop() called with a query in progress; its snapshot was
\* emitted and run() ended at the next test, without a slice slept.
C21_Witness ==
    /\ polling.pc = "done"
    /\ polling.at_stop = "query"
    /\ polling.emits_after = 1
    /\ polling.sleeps_after = 0 /\ polling.queries_after = 0

\* C24: the window applies the snapshots in the order get_full_status()
\* returned them.
C24_SnapshotsInOrder ==
    \A i, j \in 1..Len(polling.applied) :
        i < j => polling.applied[i] < polling.applied[j]

\* C31: a LogStreamer run that finds the container not running emits error,
\* never calls stream_logs() and never emits log_line; it ends at once.
C31_NoRelayUnlessRunning ==
    \A i \in Streamers :
        (threads[i].pc \notin {"none", "start"} /\ ~threads[i].running_at_start) =>
            /\ threads[i].error
            /\ ~threads[i].streamed
            /\ ~threads[i].lines
            /\ threads[i].pc = "done"
            /\ threads[i].path \in {"not_running", "error"}

\* C31 witness: a run started on a container that was not running (stopped
\* outside the application before run() asked).
C31_Witness ==
    \E i \in Streamers :
        /\ threads[i].pc = "done" /\ ~threads[i].running_at_start
        /\ threads[i].path = "not_running"
        /\ threads[i].error /\ ~threads[i].streamed

\* C32: a close request answered Cancel leaves the status poll task running:
\* when closeEvent found a StatusPoller and ignored the event, the window
\* still holds that poller and its thread is still polling.
C32_CancelKeepsPolling ==
    ( /\ ui.handler = "closeEvent" /\ ui.reply = "Cancel" /\ ~ui.exc
      /\ HasCall(ui.calls, "event.ignore")
      /\ HasCall(ui.calls, "StatusPoller.stop") ) =>
        /\ window = "open"
        /\ status_poller # None
        /\ poller.pc = "run" /\ ~poller.stop_requested

\* The ImagePullWorker threads that were started and have not emitted finished.
ActivePulls == {i \in 1..MaxPulls : workers[i].pc \in {"run", "check"}}

\* C33: at most one ImagePullWorker is running at any time, whatever the
\* Setup clicks, confirmations and progress-dialog cancellations were.
C33_OnePullAtATime == Cardinality(ActivePulls) <= 1

\* C34: every snapshot get_full_status() returns with container_state other
\* than NotFound carries the container's id, also when the container is
\* removed between the state query and the id query.
C34_IdWheneverFound ==
    (FullStatusReturned /\ last.status.container_state # NOT_FOUND) =>
        SnapshotId = ShortId

\* Whether a save is in progress, between its first statement and its return.
Saving == panel.pc \in {"open", "dump", "crashed"}

\* C35: every change of the configuration is in the file when its handler
\* has returned, and at every point of a save, the process ending there
\* included, the file is the complete configuration of before the save or the
\* complete new one.
C35_AtomicSave ==
    /\ (panel.pc = "idle" /\ panel.config # AppConfig) =>
          panel.file = JsonFile(panel.config)
    /\ (Saving /\ panel.before # AbsentFile) =>
          panel.file \in {panel.before, JsonFile(panel.config)}

\* The media_paths list of the file; no file holds no path.
PersistedPaths ==
    IF panel.file.content = "json" THEN panel.file.data.media_paths ELSE <<>>

\* C36: with no handler running, media_list holds the paths of the persisted
\* media_paths list, in the same order, each as often.
C36_ListMatchesFile == panel.pc = "idle" => panel.media_list = PersistedPaths

\* C37: with the SDK present, start_daemon() returning success leaves a
\* pinged connection in _client; stop_daemon() returning success after the
\* helper ran leaves _client cleared; stop_daemon() returning failure leaves
\* the connection its is_daemon_running() check found.
C37_DaemonCallsAndConnection ==
    /\ (last.op = "start_daemon" /\ ~last.exc /\ last.ok /\ last.pre.sdk) =>
          client = Conn /\ daemonUp
    /\ (last.op = "stop_daemon" /\ ~last.exc /\ last.ok
          /\ HasCall(last.calls, "pkexec systemctl stop docker")) =>
          client = None
    /\ (last.op = "stop_daemon" /\ ~last.exc /\ ~last.ok) =>
          /\ last.pre.client # None => client = last.pre.client
          /\ last.pre.sdk => client = Conn

\* What update_button_states enables for a pair of states.
Enabled(daemon_state, container_state) ==
    update_button_states(Pack, daemon_state, container_state).buttons

\* At most one of Setup, Start and Stop is enabled, Setup and Start only with
\* the daemon running, Stop Daemon not with the container running.
ButtonsAgree(b, daemon_state, container_state) ==
    /\ Cardinality({k \in {"setup", "start", "stop"} : b[k]}) <= 1
    /\ (b.setup \/ b.start) => daemon_state = DAEMON_RUNNING
    /\ b.stop_daemon => container_state # RUNNING

\* C38: for every pair of states update_button_states enables at most one of
\* Setup, Start and Stop, Setup and Start only with the daemon running, and
\* Stop Daemon not with the container running, and so are the buttons after
\* every snapshot the panel was given; _on_stop_daemon does not call
\* stop_daemon when its state query answered Running.
C38_ButtonsExclusive ==
    /\ \A d \in DaemonState, c \in ContainerState :
          ButtonsAgree(Enabled(d, c), d, c)
    /\ HasCall(ui.calls, "_on_status_updated") =>
          /\ Cardinality({k \in {"setup", "start", "stop"} : buttons[k]}) <= 1
          /\ buttons.stop_daemon =>
                Answer(ui.calls, "_on_status_updated") # RUNNING
    /\ (ui.handler = "_on_stop_daemon"
          /\ Answer(ui.calls, "get_container_state") = RUNNING) =>
          /\ ~HasCall(ui.calls, "stop_daemon")
          /\ ~HasCall(ui.calls, "pkexec systemctl stop docker")
          /\ HasCall(ui.calls, "QMessageBox.warning")
          /\ daemonUp = ui.pre.daemonUp

\* C38 witness: Stop Daemon clicked with the container running (the button
\* was enabled by a snapshot taken before the container was started outside).
C38_Witness ==
    /\ ui.handler = "_on_stop_daemon"
    /\ Answer(ui.calls, "get_container_state") = RUNNING
    /\ ui.pre.cstate = RUNNING
    /\ HasCall(ui.calls, "QMessageBox.warning")

\* C39: when run() is about to make its next tick, it has slept interval_ms
\* since the last one, in slices of 100 ms.
C39_SleepsInterval ==
    (timer.pc = "tick" /\ timer.ticked) =>
        /\ timer.slept = timer.interval_ms
        /\ timer.slept = 100 * timer.i

====
